---- MODULE Spec2Model ----
(***************************************************************************)
(* Character statistics of src/src/char/stats.py: modifiers, the modifier  *)
(* fold of Stat, the bounds of BoundedStat and the Resource pool; and the  *)
(* statuses and the StatusBar of src/src/char/status.py.                   *)
(***************************************************************************)
EXTENDS Integers, Sequences, FiniteSets, TLC

VARIABLES
    phase,                  \* "args" before a constructor ran, "ok" after it returned, "ValueError" when it raised
    cls,                    \* class of the stat: "Stat", "BoundedStat", "Resist", "Resource", "Armour", "Skill"
    arg_base,               \* the base handed to the constructor
    lower_bound,            \* BoundedStat._lower_bound (None or a Decimal)
    upper_bound,            \* BoundedStat._upper_bound
    modified_upper_bound,   \* BoundedStat._modified_upper_bound
    base,                   \* Stat._base
    modifiers,              \* Stat._modifiers: a list of Modifier objects (indices of pool)
    pool,                   \* the Modifier objects that exist, by identity
    growth,                 \* Resist._growth / Resource._growth: a DecimalRange
    current,                \* Resource._current
    regeneration,           \* Resource._regeneration: its base and its own modifier list
    xp_points,              \* ExponentialLevelSystem._xp_points of a Skill
    op,                     \* the last call, with its arguments and its result
    inserted,               \* the modifiers in the order the caller added them (SpecOrder)
    twin,                   \* an equivalent Stat that gets the same calls but for one add/remove pair (SpecTwin)
    statuses,               \* the Status and UniqueStatus objects that exist, by identity
    mark_lists,             \* the list objects the statuses' _marks refer to, by identity
    common,                 \* StatusBar._common: a list of statuses
    unique,                 \* StatusBar._unique: a dict, kept as its items in insertion order
    expired,                \* StatusBar._expired: a list of statuses
    log,                    \* what the callers did with each status: add_status calls, end_turn calls since, losses
    load,                   \* CarryingCapacity._load
    bonus,                  \* Damage._bonus: the base and the modifier list of the DamageBonus
    sheet                   \* StatSheet._blocks: the blocks in insertion order, each a list of stats

barvars == <<statuses, mark_lists, common, unique, expired, log>>

sheetvars == <<load, bonus, sheet>>

vars == <<phase, cls, arg_base, lower_bound, upper_bound, modified_upper_bound,
          base, modifiers, pool, growth, current, regeneration, xp_points, op, inserted, twin,
          statuses, mark_lists, common, unique, expired, log, load, bonus, sheet>>

(***************************************************************************)
(* decimal.Decimal: a coefficient n and a number e of decimal places, the  *)
(* value n / 10^e.  Equality of Decimals is numeric, so every result is    *)
(* kept without trailing zeros and equal values are equal records.         *)
(***************************************************************************)
RECURSIVE Pow10(_)
Pow10(k) == IF k = 0 THEN 1 ELSE 10 * Pow10(k - 1)

RECURSIVE Norm(_)
Norm(d) == IF d.e > 0 /\ d.n % 10 = 0
           THEN Norm([n |-> d.n \div 10, e |-> d.e - 1])
           ELSE d

Dec(n, e) == Norm([n |-> n, e |-> e])
D(n) == Dec(n, 0)

MaxE(a, b) == IF a.e >= b.e THEN a.e ELSE b.e
Scaled(a, e) == a.n * Pow10(e - a.e)

DAdd(a, b) == Dec(Scaled(a, MaxE(a, b)) + Scaled(b, MaxE(a, b)), MaxE(a, b))
DSub(a, b) == Dec(Scaled(a, MaxE(a, b)) - Scaled(b, MaxE(a, b)), MaxE(a, b))
DMul(a, b) == Dec(a.n * b.n, a.e + b.e)
DLt(a, b) == Scaled(a, MaxE(a, b)) < Scaled(b, MaxE(a, b))
DLe(a, b) == Scaled(a, MaxE(a, b)) <= Scaled(b, MaxE(a, b))
DMax(a, b) == IF DLt(a, b) THEN b ELSE a
DMin(a, b) == IF DLt(b, a) THEN b ELSE a

\* int(d): truncation towards zero
DInt(d) == IF d.n >= 0 THEN d.n \div Pow10(d.e) ELSE -((-d.n) \div Pow10(d.e))

Range(s) == {s[i] : i \in DOMAIN s}

\* Optional values: None is the empty tuple, a present value v is <<v>>.
None == << >>
Some(v) == <<v>>
IsNone(x) == x = << >>
Val(x) == x[1]

(***************************************************************************)
(* Modification and Modifier                                               *)
(***************************************************************************)
Modifications == {"FLAT", "PERCENT_ADDITIVE", "PERCENT_MULTIPLICATIVE"}

ModificationValue(m) ==
    CASE m = "FLAT" -> 1
      [] m = "PERCENT_ADDITIVE" -> 2
      [] m = "PERCENT_MULTIPLICATIVE" -> 3

ORDER_VALUES == 0 .. 5

\* Modifier.__init__: the assertion looks at the modification's value, the
\* explicit order is stored as given.
ModifierInit(b, modification, order, source) ==
    IF ModificationValue(modification) \in ORDER_VALUES
    THEN [ok |-> TRUE,
          base |-> b,
          modification |-> modification,
          order |-> IF IsNone(order) THEN ModificationValue(modification) ELSE Val(order),
          source |-> source]
    ELSE [ok |-> FALSE, base |-> b, modification |-> modification,
          order |-> -1, source |-> source]

\* Modifier.get_value: read through to the base.
ModifierValue(m) == pool[m].base

(***************************************************************************)
(* Stat                                                                    *)
(***************************************************************************)
\* list.sort(key=lambda m: m.order): stable, ascending.
RECURSIVE InsertByOrder(_, _)
InsertByOrder(sorted, m) ==
    IF sorted = << >> THEN <<m>>
    ELSE IF pool[sorted[Len(sorted)]].order <= pool[m].order
         THEN Append(sorted, m)
         ELSE Append(InsertByOrder(SubSeq(sorted, 1, Len(sorted) - 1), m),
                     sorted[Len(sorted)])

RECURSIVE SortByOrder(_)
SortByOrder(list) ==
    IF list = << >> THEN << >>
    ELSE InsertByOrder(SortByOrder(SubSeq(list, 1, Len(list) - 1)), list[Len(list)])

\* Stat._calculate_modified_value: the loop from index i on.
RECURSIVE FoldFrom(_, _, _, _)
FoldFrom(list, i, value, sum_percent_additive) ==
    IF i > Len(list) THEN value
    ELSE LET kind == pool[list[i]].modification
             v == ModifierValue(list[i])
         IN CASE kind = "FLAT" ->
                   FoldFrom(list, i + 1, DAdd(value, v), sum_percent_additive)
              [] kind = "PERCENT_ADDITIVE" ->
                   LET s == DAdd(sum_percent_additive, v)
                   IN IF i + 1 <= Len(list)
                         /\ pool[list[i + 1]].modification = "PERCENT_ADDITIVE"
                      THEN FoldFrom(list, i + 1, value, s)
                      ELSE FoldFrom(list, i + 1, DMul(value, DAdd(D(1), s)), D(0))
              [] kind = "PERCENT_MULTIPLICATIVE" ->
                   FoldFrom(list, i + 1, DMul(value, DAdd(D(1), v)), sum_percent_additive)

\* A fold that applies every PERCENT_ADDITIVE modifier on its own.
RECURSIVE FoldCompounding(_, _, _)
FoldCompounding(list, i, value) ==
    IF i > Len(list) THEN value
    ELSE IF pool[list[i]].modification = "FLAT"
         THEN FoldCompounding(list, i + 1, DAdd(value, ModifierValue(list[i])))
         ELSE FoldCompounding(list, i + 1,
                              DMul(value, DAdd(D(1), ModifierValue(list[i]))))

CalculateCompounding(b, list) == FoldCompounding(list, 1, b)

CalculateModifiedValue(b, list) == FoldFrom(list, 1, b, D(0))

\* BoundedStat._adjust_for_bounds
AdjustForBounds(value, lo, up) ==
    LET v1 == IF IsNone(lo) THEN value ELSE DMax(value, Val(lo))
    IN IF IsNone(up) THEN v1 ELSE DMin(v1, Val(up))

\* Stat._adjusted_value, which BoundedStat overrides.
AdjustedValueOfStat(value, lo, up, mup) == value

\* BoundedStat._adjusted_value: the lower bound and the modified upper bound.
AdjustedValue(value, lo, up, mup) == AdjustForBounds(value, lo, mup)

\* Stat.get_value: the list that is folded.
MergedModifiers(list, optional_modifiers) ==
    IF optional_modifiers # << >>
    THEN SortByOrder(list \o optional_modifiers)
    ELSE list

GetValue(b, list, optional_modifiers, lo, up, mup) ==
    AdjustedValue(CalculateModifiedValue(b, MergedModifiers(list, optional_modifiers)),
                  lo, up, mup)

\* An add_modifier that appends and leaves the list as it is.
AddModifierUnsorted(list, m) == Append(list, m)

\* Stat.add_modifier: append, then sort.
AddModifier(list, m) == SortByOrder(Append(list, m))

\* list.remove: the first occurrence goes.
RECURSIVE RemoveFirst(_, _)
RemoveFirst(list, m) ==
    IF list = << >> THEN << >>
    ELSE IF list[1] = m THEN Tail(list)
         ELSE <<list[1]>> \o RemoveFirst(Tail(list), m)

RemoveModifier(list, m) == RemoveFirst(list, m)

\* A remove_source that stops at the first modifier of the source.
RECURSIVE RemoveSourceFirst(_, _)
RemoveSourceFirst(list, source) ==
    IF list = << >> THEN << >>
    ELSE IF pool[list[1]].source # source
         THEN <<list[1]>> \o RemoveSourceFirst(Tail(list), source)
         ELSE Tail(list)

\* Stat.remove_source: keep the modifiers of every other source.
RECURSIVE RemoveSource(_, _)
RemoveSource(list, source) ==
    IF list = << >> THEN << >>
    ELSE IF pool[list[1]].source # source
         THEN <<list[1]>> \o RemoveSource(Tail(list), source)
         ELSE RemoveSource(Tail(list), source)

\* A _set_base that adjusts the base against the bounds of the value.
SetBaseWithinModified(new_value, lo, up) ==
    AdjustForBounds(new_value, lo, modified_upper_bound)

\* BoundedStat._set_base: assign, then _adjust_base.
SetBase(new_value, lo, up) == AdjustForBounds(new_value, lo, up)

\* A constructor that does not compare the two upper bounds.
BoundedStatInitUncompared(b, lo, up, mup) ==
    IF IsNone(up) /\ ~IsNone(mup) THEN "ValueError"
    ELSE IF \/ (~IsNone(lo) /\ DLt(b, Val(lo)))
            \/ (~IsNone(up) /\ DLt(Val(up), b)) THEN "ValueError"
    ELSE "ok"

\* BoundedStat.__init__: which configurations are rejected.
BoundedStatInit(b, lo, up, mup) ==
    IF IsNone(up) /\ ~IsNone(mup) THEN "ValueError"
    ELSE IF \/ (~IsNone(lo) /\ DLt(b, Val(lo)))
            \/ (~IsNone(up) /\ DLt(Val(up), b)) THEN "ValueError"
    ELSE IF ~IsNone(mup) /\ DLt(Val(mup), Val(up)) THEN "ValueError"
    ELSE "ok"

(***************************************************************************)
(* Bounds of the model and the inputs the callers draw from                *)
(***************************************************************************)
MaxMods == 3
MaxResourceMods == 2

Sources == {"necromancer", "ring", "None"}

\* The Modifier objects handed to the stat by its callers.
Catalogue ==
    << ModifierInit(D(200), "FLAT", None, "necromancer"),
       ModifierInit(D(-200), "FLAT", None, "ring"),
       ModifierInit(Dec(5, 1), "PERCENT_ADDITIVE", None, "necromancer"),
       ModifierInit(Dec(5, 1), "PERCENT_ADDITIVE", None, "None"),
       ModifierInit(Dec(-5, 1), "PERCENT_MULTIPLICATIVE", None, "ring"),
       ModifierInit(Dec(5, 1), "PERCENT_MULTIPLICATIVE", Some(1), "None") >>

\* Lists handed to get_value as optional_modifiers.
OptionalLists == { << >>, <<1>>, <<2>>, <<5>>, <<4, 3>>, <<6, 1>> }

BaseInputs == { D(-200), D(10), D(200) }

NoTwin == [list |-> << >>, m |-> 0, stage |-> "none"]

\* No StatusBar: the stat specifications leave these alone.
NoStatusBar ==
    /\ statuses = << >>
    /\ mark_lists = << >>
    /\ common = << >>
    /\ unique = << >>
    /\ expired = << >>
    /\ log = << >>

\* No CarryingCapacity, Damage or StatSheet.
NoSheet ==
    /\ load = D(0)
    /\ bonus = [base |-> D(0), modifiers |-> << >>]
    /\ sheet = << >>

NoOp == [name |-> "init", m |-> 0, source |-> "None", value |-> None,
         passed |-> << >>, after |-> << >>, ret |-> None, before |-> 0,
         raised |-> "No"]

(***************************************************************************)
(* Operations of a constructed stat                                        *)
(***************************************************************************)
\* What get_value leaves in self._modifiers and in the caller's list: the
\* merged list is a new list, and the sort is on that new list.
PersistedMergedInPlace(list, optional_modifiers) ==
    MergedModifiers(list, optional_modifiers)

PersistedAfterGetValue(list, optional_modifiers) == list
PassedAfterGetValue(list, optional_modifiers) == optional_modifiers

Value(optional_modifiers) ==
    GetValue(base, modifiers, optional_modifiers,
             lower_bound, upper_bound, modified_upper_bound)

StatFrame == UNCHANGED <<phase, cls, arg_base, lower_bound, upper_bound,
                         modified_upper_bound, pool, growth, regeneration, inserted, twin, barvars, sheetvars>>

\* ExponentialLevelSystem._calculate_xp_at_level for the Skill of the model,
\* whose scale k is 1: int((k*level)**3.5 + 1.18**level + k*100*level)
XpAtLevel(level) ==
    CASE level = 0 -> 1
      [] level = 1 -> 102
      [] level = 2 -> 212
      [] level = 3 -> 348
      [] level = 4 -> 529
      [] level = 5 -> 781
      [] level = 6 -> 1131
      [] level = 7 -> 1610

\* Skill.level
Level(b) == DInt(b)

\* A _refresh_xp that leaves the xp as it is.
RefreshXpKept(b, xp) == xp

\* ExponentialLevelSystem._refresh_xp
RefreshXp(b, xp) ==
    IF XpAtLevel(Level(b)) <= xp /\ xp < XpAtLevel(Level(b) + 1)
    THEN xp
    ELSE XpAtLevel(Level(b))

\* BoundedStat.is_capped
IsCapped(b, up) == ~IsNone(up) /\ DLe(Val(up), b)

\* Skill.can_levelup
CanLevelup(b, up, xp) == ~IsCapped(b, up) /\ xp >= XpAtLevel(Level(b) + 1)

\* Skill._set_base refreshes the xp after the base is adjusted; the other
\* classes have no xp.
XpAfterSetBase(new_base) ==
    IF cls = "Skill" THEN RefreshXp(new_base, xp_points) ELSE xp_points

\* How many modifiers the callers of the model stack on one stat.
ModLimit == IF cls \in {"Resource", "Armour"} THEN MaxResourceMods ELSE MaxMods

\* An add_modifier that re-clamps the current of a Resource at once.
add_modifier_reclamping(m) ==
    /\ phase = "ok"
    /\ Len(modifiers) < ModLimit
    /\ modifiers' = AddModifier(modifiers, m)
    /\ current' = IF cls \in {"Resource", "Armour"}
                  THEN AdjustForBounds(current, lower_bound,
                                       Some(GetValue(base, modifiers', << >>, lower_bound,
                                                     upper_bound, modified_upper_bound)))
                  ELSE current
    /\ op' = [NoOp EXCEPT !.name = "add_modifier", !.m = m]
    /\ UNCHANGED <<base, xp_points>>
    /\ StatFrame

add_modifier(m) ==
    /\ phase = "ok"
    /\ Len(modifiers) < ModLimit
    /\ modifiers' = AddModifier(modifiers, m)
    /\ op' = [NoOp EXCEPT !.name = "add_modifier", !.m = m]
    /\ UNCHANGED <<base, current, xp_points>>
    /\ StatFrame

remove_modifier(m) ==
    /\ phase = "ok"
    /\ m \in Range(modifiers)
    /\ modifiers' = RemoveModifier(modifiers, m)
    /\ op' = [NoOp EXCEPT !.name = "remove_modifier", !.m = m]
    /\ UNCHANGED <<base, current, xp_points>>
    /\ StatFrame

remove_source(source) ==
    /\ phase = "ok"
    /\ cls \in {"Stat", "BoundedStat", "Resist", "Skill"}
    /\ modifiers' = RemoveSource(modifiers, source)
    /\ op' = [NoOp EXCEPT !.name = "remove_source", !.source = source,
                          !.before = Len(modifiers)]
    /\ UNCHANGED <<base, current, xp_points>>
    /\ StatFrame

set_base(new_value) ==
    /\ phase = "ok"
    /\ base' = SetBase(new_value, lower_bound, upper_bound)
    /\ xp_points' = XpAfterSetBase(base')
    /\ op' = [NoOp EXCEPT !.name = "base", !.value = Some(new_value)]
    /\ UNCHANGED <<modifiers, current>>
    /\ StatFrame

get_value(optional_modifiers) ==
    /\ phase = "ok"
    /\ modifiers' = PersistedAfterGetValue(modifiers, optional_modifiers)
    /\ op' = [NoOp EXCEPT !.name = "get_value",
                          !.passed = optional_modifiers,
                          !.after = PassedAfterGetValue(modifiers, optional_modifiers),
                          !.ret = Some(Value(optional_modifiers))]
    /\ UNCHANGED <<base, current, xp_points>>
    /\ StatFrame

NextStat ==
    \/ \E m \in DOMAIN pool : add_modifier(m)
    \/ \E m \in DOMAIN pool : remove_modifier(m)
    \/ \E s \in Sources : remove_source(s)
    \/ \E v \in BaseInputs : set_base(v)
    \/ \E l \in {o \in OptionalLists : Range(o) \subseteq DOMAIN pool} : get_value(l)

\* A plain Stat (no bounds: _adjusted_value is the identity) with base 10.
InitStat ==
    /\ phase = "ok"
    /\ cls = "Stat"
    /\ arg_base = D(10)
    /\ lower_bound = None
    /\ upper_bound = None
    /\ modified_upper_bound = None
    /\ base = D(10)
    /\ modifiers = << >>
    /\ pool = Catalogue
    /\ growth = [lower |-> D(0), upper |-> D(0)]
    /\ current = D(0)
    /\ regeneration = [base |-> D(0), modifiers |-> << >>]
    /\ xp_points = 0
    /\ op = NoOp
    /\ inserted = << >>
    /\ twin = NoTwin
    /\ NoStatusBar
    /\ NoSheet

Spec == InitStat /\ [][NextStat]_vars

(***************************************************************************)
(* Properties of the plain Stat                                            *)
(***************************************************************************)
RECURSIVE SumOfKind(_, _)
SumOfKind(list, kind) ==
    IF list = << >> THEN D(0)
    ELSE IF pool[list[1]].modification = kind
         THEN DAdd(pool[list[1]].base, SumOfKind(Tail(list), kind))
         ELSE SumOfKind(Tail(list), kind)

RECURSIVE ProductOfMultiplicative(_)
ProductOfMultiplicative(list) ==
    IF list = << >> THEN D(1)
    ELSE IF pool[list[1]].modification = "PERCENT_MULTIPLICATIVE"
         THEN DMul(DAdd(D(1), pool[list[1]].base), ProductOfMultiplicative(Tail(list)))
         ELSE ProductOfMultiplicative(Tail(list))

\* (base + sum of FLAT) * (1 + sum of PERCENT_ADDITIVE) * product of (1 + PERCENT_MULTIPLICATIVE)
ClosedForm(b, list) ==
    DMul(DMul(DAdd(b, SumOfKind(list, "FLAT")),
              DAdd(D(1), SumOfKind(list, "PERCENT_ADDITIVE"))),
         ProductOfMultiplicative(list))

AllDefaultOrder(list) ==
    \A i \in DOMAIN list :
        pool[list[i]].order = ModificationValue(pool[list[i]].modification)

KeepOtherSources(list, source) ==
    LET Other(m) == pool[m].source # source IN SelectSeq(list, Other)

Count(list, m) == Cardinality({i \in DOMAIN list : list[i] = m})

\* C4: remove_source(id) leaves no persisted modifier of source id, keeps every
\* other modifier in place in the same relative order, changes nothing when
\* nothing matches or when it is repeated, and a modifier of that source added
\* afterwards is persisted.
C4_RemoveSourceExact ==
    [][ /\ op'.name = "remove_source" =>
            /\ \A i \in DOMAIN modifiers' : pool[modifiers'[i]].source # op'.source
            /\ modifiers' = KeepOtherSources(modifiers, op'.source)
            /\ (\A i \in DOMAIN modifiers : pool[modifiers[i]].source # op'.source)
                   => modifiers' = modifiers
            /\ (op.name = "remove_source" /\ op.source = op'.source)
                   => modifiers' = modifiers
        /\ (op.name = "remove_source" /\ op'.name = "add_modifier") =>
            Count(modifiers', op'.m) = Count(modifiers, op'.m) + 1
      ]_vars

\* remove_source took two modifiers of one source away and left one of another source.
C4_Witness ==
    /\ op.name = "remove_source"
    /\ op.source = "necromancer"
    /\ op.before = 3
    /\ modifiers = <<2>>

\* C5: with default orders only, get_value is
\* (base + sum FLAT) * (1 + sum PERCENT_ADDITIVE) * product (1 + PERCENT_MULTIPLICATIVE),
\* whatever the insertion order; also for a preview with optional modifiers.
C5_DefaultOrderClosedForm ==
    /\ (phase = "ok" /\ AllDefaultOrder(modifiers)) =>
           Value(<< >>) = ClosedForm(base, modifiers)
    /\ (op.name = "get_value" /\ AllDefaultOrder(modifiers \o op.passed)) =>
           op.ret = Some(ClosedForm(base, modifiers \o op.passed))

\* Two +50% PERCENT_ADDITIVE modifiers on base 10, the second-created one added
\* first: 10 * (1 + 0.5 + 0.5) = 20.
C5_Witness ==
    /\ base = D(10)
    /\ modifiers = <<4, 3>>
    /\ op.name = "get_value"
    /\ op.passed = << >>
    /\ op.ret = Some(D(20))

\* C7: get_value(optional_modifiers) changes neither the persisted list, nor
\* the base, nor the list it was passed, so get_value() is the same before and after.
C7_GetValueIsPure ==
    [][ op'.name = "get_value" =>
            /\ modifiers' = modifiers
            /\ base' = base
            /\ op'.after = op'.passed
            /\ GetValue(base', modifiers', << >>, lower_bound', upper_bound',
                        modified_upper_bound')
               = Value(<< >>)
      ]_vars

\* A preview with two optional modifiers on a stat that holds modifiers, whose
\* result differs from the persisted value.
C7_Witness ==
    /\ op.name = "get_value"
    /\ op.passed = <<6, 1>>
    /\ Len(modifiers) = 2
    /\ op.ret # Some(Value(<< >>))

(***************************************************************************)
(* Resist, Resource, Armour and Skill                                      *)
(***************************************************************************)
MaxBase == 3
MaxRegenMods == 1
MaxXp == 700

CurrentInputs == { D(-5), D(3), D(500) }
ResourceBaseInputs == { D(4), D(10) }
XpInputs == { -1, 101, 250 }

\* roll_decimal(minimum, maximum, digits=2): the values random.randint can give.
RollDecimal(minimum, maximum) ==
    { Dec(r, 2) : r \in DInt(DMul(minimum, D(100))) .. DInt(DMul(maximum, D(100))) }

\* ResourceRegeneration: a SecondaryStat with lower bound 0 and no upper bounds.
RegenerationValue ==
    GetValue(regeneration.base, regeneration.modifiers, << >>, Some(D(0)), None, None)

\* An _update_current that clamps against the base, not against get_value().
UpdateCurrentAgainstBase(c) == AdjustForBounds(c, lower_bound, Some(base))

\* Resource._update_current
UpdateCurrent(c) == AdjustForBounds(c, lower_bound, Some(Value(<< >>)))

ResourceFrame == UNCHANGED <<phase, cls, arg_base, lower_bound, upper_bound,
                             modified_upper_bound, pool, growth, inserted, twin, barvars, sheetvars>>

\* Resist.grow / Resource.grow
grow ==
    /\ phase = "ok"
    /\ cls \in {"Resist", "Resource", "Armour"}
    /\ DLt(base, D(MaxBase))
    /\ DLt(D(0 - MaxBase), base)
    /\ \E r \in RollDecimal(growth.lower, growth.upper) :
         /\ base' = SetBase(DAdd(base, r), lower_bound, upper_bound)
         /\ op' = [NoOp EXCEPT !.name = "grow", !.value = Some(r),
                               !.ret = Some(DSub(base', base)),
                               !.raised = IF DLt(DSub(base', base), D(0))
                                          THEN "AssertionError" ELSE "No"]
    /\ UNCHANGED <<modifiers, current, xp_points>>
    /\ StatFrame

\* A getter that hands out the stored current as it is.
read_current_stored ==
    /\ phase = "ok"
    /\ cls \in {"Resource", "Armour"}
    /\ current' = current
    /\ op' = [NoOp EXCEPT !.name = "current", !.ret = Some(current')]
    /\ UNCHANGED <<base, modifiers, xp_points>>
    /\ StatFrame

\* Resource.current (the getter)
read_current ==
    /\ phase = "ok"
    /\ cls \in {"Resource", "Armour"}
    /\ current' = UpdateCurrent(current)
    /\ op' = [NoOp EXCEPT !.name = "current", !.ret = Some(current')]
    /\ UNCHANGED <<base, modifiers, xp_points>>
    /\ StatFrame

\* Resource.current (the setter)
set_current(new_value) ==
    /\ phase = "ok"
    /\ cls \in {"Resource", "Armour"}
    /\ current' = new_value
    /\ op' = [NoOp EXCEPT !.name = "set_current", !.value = Some(new_value)]
    /\ UNCHANGED <<base, modifiers, xp_points>>
    /\ StatFrame

\* A regenerate that starts from the stored current without reading it.
regenerate_from_stored ==
    /\ phase = "ok"
    /\ cls \in {"Resource", "Armour"}
    /\ LET before == current
           after == UpdateCurrent(DAdd(before, RegenerationValue))
       IN /\ current' = after
          /\ op' = [NoOp EXCEPT !.name = "regenerate",
                                !.ret = Some(DSub(after, before)),
                                !.raised = IF DLt(DSub(after, before), D(0))
                                           THEN "AssertionError" ELSE "No"]
    /\ UNCHANGED <<base, modifiers, xp_points>>
    /\ StatFrame

\* Resource.regenerate: read, add the regeneration, read again.
regenerate ==
    /\ phase = "ok"
    /\ cls \in {"Resource", "Armour"}
    /\ LET before == UpdateCurrent(current)
           after == UpdateCurrent(DAdd(before, RegenerationValue))
       IN /\ current' = after
          /\ op' = [NoOp EXCEPT !.name = "regenerate",
                                !.ret = Some(DSub(after, before)),
                                !.raised = IF DLt(DSub(after, before), D(0))
                                           THEN "AssertionError" ELSE "No"]
    /\ UNCHANGED <<base, modifiers, xp_points>>
    /\ StatFrame

\* Resource.add_modifier(modifier, regeneration=True)
add_regeneration_modifier(m) ==
    /\ phase = "ok"
    /\ cls \in {"Resource", "Armour"}
    /\ Len(regeneration.modifiers) < MaxRegenMods
    /\ regeneration' = [regeneration EXCEPT !.modifiers = AddModifier(@, m)]
    /\ op' = [NoOp EXCEPT !.name = "add_regeneration_modifier", !.m = m]
    /\ UNCHANGED <<base, modifiers, current, xp_points>>
    /\ ResourceFrame

\* Resource.remove_modifier(modifier, regeneration=True)
remove_regeneration_modifier(m) ==
    /\ phase = "ok"
    /\ cls \in {"Resource", "Armour"}
    /\ m \in Range(regeneration.modifiers)
    /\ regeneration' = [regeneration EXCEPT !.modifiers = RemoveModifier(@, m)]
    /\ op' = [NoOp EXCEPT !.name = "remove_regeneration_modifier", !.m = m]
    /\ UNCHANGED <<base, modifiers, current, xp_points>>
    /\ ResourceFrame

\* Resource.remove_source: the stat's own list, then the regeneration's.
resource_remove_source(source) ==
    /\ phase = "ok"
    /\ cls \in {"Resource", "Armour"}
    /\ modifiers' = RemoveSource(modifiers, source)
    /\ regeneration' = [regeneration EXCEPT !.modifiers = RemoveSource(@, source)]
    /\ op' = [NoOp EXCEPT !.name = "remove_source", !.source = source]
    /\ UNCHANGED <<base, current, xp_points>>
    /\ ResourceFrame

\* Skill.levelup
levelup ==
    /\ phase = "ok"
    /\ cls = "Skill"
    /\ IF CanLevelup(base, upper_bound, xp_points)
       THEN /\ base' = SetBase(DAdd(base, D(1)), lower_bound, upper_bound)
            /\ xp_points' = XpAfterSetBase(base')
       ELSE UNCHANGED <<base, xp_points>>
    /\ op' = [NoOp EXCEPT !.name = "levelup"]
    /\ UNCHANGED <<modifiers, current>>
    /\ StatFrame

\* The loop of Skill.add_xp: level up while can_levelup() holds.
RECURSIVE LevelupLoop(_, _)
LevelupLoop(b, xp) ==
    IF CanLevelup(b, upper_bound, xp)
    THEN LET b1 == SetBase(DAdd(b, D(1)), lower_bound, upper_bound)
         IN LevelupLoop(b1, RefreshXp(b1, xp))
    ELSE [base |-> b, xp_points |-> xp]

\* Skill.add_xp
add_xp(amount) ==
    /\ phase = "ok"
    /\ cls = "Skill"
    /\ xp_points + amount <= MaxXp
    /\ IF IsCapped(base, upper_bound)
       THEN /\ UNCHANGED <<base, xp_points>>
            /\ op' = [NoOp EXCEPT !.name = "add_xp", !.before = amount]
       ELSE IF amount < 0
       THEN /\ UNCHANGED <<base, xp_points>>
            /\ op' = [NoOp EXCEPT !.name = "add_xp", !.before = amount,
                                  !.raised = "ValueError"]
       ELSE LET end == LevelupLoop(base, xp_points + amount)
            IN /\ base' = end.base
               /\ xp_points' = end.xp_points
               /\ op' = [NoOp EXCEPT !.name = "add_xp", !.before = amount]
    /\ UNCHANGED <<modifiers, current>>
    /\ StatFrame

\* BoundedStat, Resist, Resource and Skill: everything that touches the base.
NextBounded ==
    \/ NextStat
    \/ grow
    \/ \E s \in Sources : resource_remove_source(s)
    \/ levelup
    \/ \E a \in XpInputs : add_xp(a)

\* Resource and Armour: the pool and its regeneration.
NextResource ==
    \/ \E m \in DOMAIN pool : add_modifier(m)
    \/ \E m \in DOMAIN pool : remove_modifier(m)
    \/ \E v \in ResourceBaseInputs : set_base(v)
    \/ read_current
    \/ \E v \in CurrentInputs : set_current(v)
    \/ regenerate
    \/ \E m \in DOMAIN pool : add_regeneration_modifier(m)
    \/ \E m \in DOMAIN pool : remove_regeneration_modifier(m)
    \/ \E s \in Sources : resource_remove_source(s)

\* The modifiers the bounded stats of the model are given.
SmallCatalogue ==
    << ModifierInit(D(200), "FLAT", None, "necromancer"),
       ModifierInit(D(-200), "FLAT", None, "ring"),
       ModifierInit(Dec(-5, 1), "PERCENT_MULTIPLICATIVE", None, "necromancer") >>

\* The two modifiers a Resource of the model is given.
TinyCatalogue ==
    << ModifierInit(D(200), "FLAT", None, "necromancer"),
       ModifierInit(Dec(-5, 1), "PERCENT_MULTIPLICATIVE", None, "ring") >>

\* Constructor calls of the model: class, base, lower_bound, upper_bound,
\* modified_upper_bound, growth, growth_max, regeneration, and the modifiers
\* the callers hold.
Constructions ==
    { [cls |-> "BoundedStat", base |-> D(10), lo |-> Some(D(0)), up |-> Some(D(100)),
       mup |-> Some(D(125)), growth |-> D(0), growth_max |-> D(0), regen |-> D(0),
       pool |-> SmallCatalogue],
      [cls |-> "BoundedStat", base |-> D(10), lo |-> Some(D(0)), up |-> Some(D(100)),
       mup |-> None, growth |-> D(0), growth_max |-> D(0), regen |-> D(0),
       pool |-> SmallCatalogue],
      [cls |-> "Resist", base |-> D(1), lo |-> Some(D(0)), up |-> None,
       mup |-> None, growth |-> Dec(101, 2), growth_max |-> D(1), regen |-> D(0),
       pool |-> TinyCatalogue],
      [cls |-> "Resource", base |-> D(10), lo |-> Some(D(0)), up |-> None,
       mup |-> None, growth |-> D(0), growth_max |-> D(0), regen |-> D(200),
       pool |-> TinyCatalogue],
      [cls |-> "Skill", base |-> D(0), lo |-> Some(D(0)), up |-> Some(D(3)),
       mup |-> Some(D(4)), growth |-> D(0), growth_max |-> D(0), regen |-> D(0),
       pool |-> TinyCatalogue] }

\* DecimalRange.__init__ with _adjust_order
DecimalRange(lower, upper) ==
    IF DLt(upper, lower) THEN [lower |-> upper, upper |-> lower]
    ELSE [lower |-> lower, upper |-> upper]

\* The state a successful constructor call leaves.
Constructed(c) ==
    /\ phase = BoundedStatInit(c.base, c.lo, c.up, c.mup)
    /\ cls = c.cls
    /\ arg_base = c.base
    /\ lower_bound = c.lo
    /\ upper_bound = c.up
    /\ modified_upper_bound = c.mup
    /\ base = c.base
    /\ modifiers = << >>
    /\ pool = c.pool
    /\ growth = DecimalRange(c.growth, c.growth_max)
    /\ current = c.base
    /\ regeneration = [base |-> c.regen, modifiers |-> << >>]
    /\ xp_points = IF c.cls = "Skill" THEN RefreshXp(c.base, 0) ELSE 0
    /\ op = NoOp
    /\ inserted = << >>
    /\ twin = NoTwin
    /\ NoStatusBar
    /\ NoSheet

InitBounded ==
    /\ \E c \in Constructions : Constructed(c)
    /\ phase = "ok"

SpecBounded == InitBounded /\ [][NextBounded]_vars

ResourceConstructions ==
    { [cls |-> "Resource", base |-> D(10), lo |-> Some(D(0)), up |-> None,
       mup |-> None, growth |-> D(0), growth_max |-> D(0), regen |-> D(200),
       pool |-> TinyCatalogue],
      [cls |-> "Armour", base |-> D(10), lo |-> None, up |-> None,
       mup |-> None, growth |-> D(0), growth_max |-> D(0), regen |-> D(200),
       pool |-> TinyCatalogue] }

InitResource ==
    /\ \E c \in ResourceConstructions : Constructed(c)
    /\ phase = "ok"

SpecResource == InitResource /\ [][NextResource]_vars

(***************************************************************************)
(* Properties of the bounded stats                                         *)
(***************************************************************************)
\* The lists get_value can be handed in the current state.
PreviewLists == {o \in OptionalLists : Range(o) \subseteq DOMAIN pool}

\* What get_value() gives now, and what the last get_value call returned.
Results == {Value(<< >>)} \cup (IF op.name = "get_value" THEN {Val(op.ret)} ELSE {})

\* C1 as claimed: get_value(), with or without optional modifiers, is at least
\* lower_bound, at most modified_upper_bound, and at most upper_bound when no
\* modified upper bound is set.
C1_Claimed ==
    phase = "ok" =>
        \A v \in Results :
            /\ ~IsNone(lower_bound) => DLe(Val(lower_bound), v)
            /\ ~IsNone(modified_upper_bound) => DLe(v, Val(modified_upper_bound))
            /\ (~IsNone(upper_bound) /\ IsNone(modified_upper_bound))
                   => DLe(v, Val(upper_bound))

\* C1 as amended: get_value(), with or without optional modifiers, is at least
\* lower_bound when that is set and at most modified_upper_bound when that is
\* set; upper_bound alone does not limit the value.
C1_ValueWithinModifiedBounds ==
    phase = "ok" =>
        \A v \in Results :
            /\ ~IsNone(lower_bound) => DLe(Val(lower_bound), v)
            /\ ~IsNone(modified_upper_bound) => DLe(v, Val(modified_upper_bound))

\* Two +200 modifiers on the 0-100/125 stat: the fold gives 410, get_value 125.
C1_Witness ==
    /\ cls = "BoundedStat"
    /\ modified_upper_bound = Some(D(125))
    /\ modifiers = <<1, 1>>
    /\ CalculateModifiedValue(base, modifiers) = D(410)
    /\ op.name = "get_value"
    /\ op.ret = Some(D(125))

\* C2: lower_bound <= base <= upper_bound in every state of every bounded
\* stat, after base assignments, grow(), levelup() and add_xp().
C2_BaseWithinBounds ==
    phase = "ok" =>
        /\ ~IsNone(lower_bound) => DLe(Val(lower_bound), base)
        /\ ~IsNone(upper_bound) => DLe(base, Val(upper_bound))

\* base = 200 was assigned to a stat with upper bound 100 and was clamped.
C2_Witness ==
    /\ op.name = "base"
    /\ op.value = Some(D(200))
    /\ upper_bound = Some(D(100))
    /\ base = D(100)

\* C10: every read of Resource.current returns c with lower_bound <= c <=
\* get_value(); a read right after an assignment above get_value() returns
\* get_value(), and right after an assignment below lower_bound returns
\* lower_bound.
C10_CurrentReadWithinBounds ==
    [][ op'.name = "current" =>
            /\ op'.ret = Some(current')
            /\ ~IsNone(lower_bound) => DLe(Val(lower_bound), current')
            /\ DLe(current', GetValue(base', modifiers', << >>, lower_bound',
                                      upper_bound', modified_upper_bound'))
            /\ (op.name = "set_current" /\ DLt(Value(<< >>), Val(op.value)))
                   => current' = Value(<< >>)
            /\ (op.name = "set_current" /\ ~IsNone(lower_bound)
                    /\ DLt(Val(op.value), Val(lower_bound)))
                   => current' = Val(lower_bound)
      ]_vars

\* A read that pulled current down to a maximum that a modifier had lowered
\* below the base.
C10_Witness ==
    /\ op.name = "current"
    /\ 2 \in Range(modifiers)
    /\ current = Value(<< >>)
    /\ DLt(current, base)

\* The current a read gives: the stored one, raised to lower_bound if there
\* is one, then lowered to get_value().
Reclamped ==
    DMin(IF IsNone(lower_bound) THEN current ELSE DMax(current, Val(lower_bound)),
         Value(<< >>))

\* C11: a newly constructed Resource has current = get_value(); a change of
\* base or modifiers leaves the stored current alone; a read after get_value()
\* fell below current gives the new get_value(), and a read while get_value()
\* is still at least current (a current not below lower_bound) gives current.
C11_CurrentFollowsValue ==
    /\ (op.name = "init" => current = Value(<< >>))
    /\ [][ /\ op'.name \in {"base", "add_modifier", "remove_modifier", "remove_source"}
               => current' = current
           /\ (op'.name = "current" /\ DLt(Value(<< >>), current))
               => (current' = Value(<< >>) /\ op'.ret = Some(Value(<< >>)))
           /\ ( /\ op'.name = "current"
                /\ DLe(current, Value(<< >>))
                /\ (IsNone(lower_bound) \/ DLe(Val(lower_bound), current)) )
               => (current' = current /\ op'.ret = Some(current)) ]_vars

\* A Resource of base 10 whose value a -50% modifier brought to 5: the read gives 5.
C11_Witness ==
    /\ cls = "Resource"
    /\ op.name = "current"
    /\ base = D(10)
    /\ modifiers = <<2>>
    /\ current = D(5)
    /\ op.ret = Some(D(5))

\* C12: regenerate() sets current to min(c + r, get_value()), c being the
\* current as a read gives it and r the regeneration's value, r >= 0; it
\* returns the delta applied, 0 <= delta <= r, and its assertion holds.
C12_RegenerateDelta ==
    [][ op'.name = "regenerate" =>
          LET c == Reclamped
              r == RegenerationValue
              delta == Val(op'.ret)
          IN /\ DLe(D(0), r)
             /\ current' = DMin(DAdd(c, r), Value(<< >>))
             /\ delta = DSub(current', c)
             /\ DLe(D(0), delta)
             /\ DLe(delta, r)
             /\ op'.raised = "No" ]_vars

\* An Armour at 3 of 210 regenerates the whole 200.
C12_Witness ==
    /\ cls = "Armour"
    /\ op.name = "regenerate"
    /\ modifiers = <<1>>
    /\ current = D(203)
    /\ op.ret = Some(D(200))

\* The largest level, not above upper_bound, whose xp threshold x reaches.
LargestLevel(x) ==
    LET top == IF IsNone(upper_bound) THEN 6 ELSE DInt(Val(upper_bound))
        reached == {n \in 0 .. top : XpAtLevel(n) <= x}
    IN CHOOSE n \in reached : \A k \in reached : k <= n

\* C13 as stated: add_xp(amount) on an uncapped Skill leaves the level at the
\* largest n, not above upper_bound, with xp_points + amount >= xp_at_level(n).
C13_Claimed ==
    [][ ( /\ cls = "Skill"
          /\ op'.name = "add_xp"
          /\ op'.before >= 0
          /\ ~IsCapped(base, upper_bound) )
        => Level(base') = LargestLevel(xp_points + op'.before) ]_vars

\* C14 as stated: add_xp(amount) with amount < 0 raises and changes nothing.
C14_Claimed ==
    [][ (cls = "Skill" /\ op'.name = "add_xp" /\ op'.before < 0)
        => /\ op'.raised = "ValueError"
           /\ base' = base
           /\ xp_points' = xp_points ]_vars

\* C15: xp_at_level(level) <= xp_points < xp_at_level(level + 1) in every
\* state of a Skill, level being int(base).
C15_XpWithinLevelBand ==
    cls = "Skill" =>
        /\ XpAtLevel(Level(base)) <= xp_points
        /\ xp_points < XpAtLevel(Level(base) + 1)

\* 250 xp granted at level 0: one level gained, the xp set back to the
\* threshold of level 1.
C15_Witness ==
    /\ cls = "Skill"
    /\ op.name = "add_xp"
    /\ op.before = 250
    /\ base = D(1)
    /\ xp_points = 102

(***************************************************************************)
(* BoundedStat.__init__ on any arguments                                   *)
(***************************************************************************)
BaseArgs == { D(-1), D(0), D(1), D(100), D(101) }
LowerArgs == { None, Some(D(0)), Some(D(1)) }
UpperArgs == { None, Some(D(100)) }
ModifiedUpperArgs == { None, Some(D(75)), Some(D(100)), Some(D(125)) }

InitArgs ==
    /\ phase = "args"
    /\ cls = "BoundedStat"
    /\ arg_base \in BaseArgs
    /\ lower_bound \in LowerArgs
    /\ upper_bound \in UpperArgs
    /\ modified_upper_bound \in ModifiedUpperArgs
    /\ base = D(0)
    /\ modifiers = << >>
    /\ pool = << >>
    /\ growth = [lower |-> D(0), upper |-> D(0)]
    /\ current = D(0)
    /\ regeneration = [base |-> D(0), modifiers |-> << >>]
    /\ xp_points = 0
    /\ op = NoOp
    /\ inserted = << >>
    /\ twin = NoTwin
    /\ NoStatusBar
    /\ NoSheet

\* BoundedStat(base, lower_bound, upper_bound, modified_upper_bound)
construct ==
    /\ phase = "args"
    /\ phase' = BoundedStatInit(arg_base, lower_bound, upper_bound, modified_upper_bound)
    /\ base' = IF phase' = "ok" THEN arg_base ELSE base
    /\ op' = [NoOp EXCEPT !.name = "__init__",
                          !.raised = IF phase' = "ok" THEN "No" ELSE "ValueError"]
    /\ UNCHANGED <<cls, arg_base, lower_bound, upper_bound, modified_upper_bound,
                   modifiers, pool, growth, current, regeneration, xp_points,
                   inserted, twin, barvars, sheetvars>>

SpecConstruct == InitArgs /\ [][construct]_vars

\* C8: construction raises exactly when the base is below lower_bound, or
\* above upper_bound, or modified_upper_bound is given without upper_bound, or
\* modified_upper_bound < upper_bound; otherwise it succeeds with the given base.
C8_ConstructionRejectsExactly ==
    phase # "args" =>
        /\ phase = "ValueError" <=>
              \/ ~IsNone(lower_bound) /\ DLt(arg_base, Val(lower_bound))
              \/ ~IsNone(upper_bound) /\ DLt(Val(upper_bound), arg_base)
              \/ ~IsNone(modified_upper_bound) /\ IsNone(upper_bound)
              \/ /\ ~IsNone(modified_upper_bound)
                 /\ ~IsNone(upper_bound)
                 /\ DLt(Val(modified_upper_bound), Val(upper_bound))
        /\ phase = "ok" => base = arg_base
        /\ phase \in {"ok", "ValueError"}

\* A base inside its bounds with a modified upper bound below the upper bound: rejected.
C8_Witness ==
    /\ phase = "ValueError"
    /\ arg_base = D(1)
    /\ lower_bound = Some(D(0))
    /\ upper_bound = Some(D(100))
    /\ modified_upper_bound = Some(D(75))

(***************************************************************************)
(* Six modifiers with explicit orders, added once each in any order        *)
(***************************************************************************)
SixModifiers ==
    << ModifierInit(D(1), "FLAT", Some(1), "None"),
       ModifierInit(Dec(3, 1), "PERCENT_MULTIPLICATIVE", Some(2), "None"),
       ModifierInit(D(3), "FLAT", Some(3), "None"),
       ModifierInit(Dec(2, 1), "PERCENT_ADDITIVE", Some(4), "None"),
       ModifierInit(Dec(1, 1), "PERCENT_ADDITIVE", Some(4), "None"),
       ModifierInit(Dec(-5, 1), "PERCENT_MULTIPLICATIVE", Some(5), "None") >>

InitOrder ==
    /\ phase = "ok"
    /\ cls = "Stat"
    /\ arg_base = D(10)
    /\ lower_bound = None
    /\ upper_bound = None
    /\ modified_upper_bound = None
    /\ base = D(10)
    /\ modifiers = << >>
    /\ pool = SixModifiers
    /\ growth = [lower |-> D(0), upper |-> D(0)]
    /\ current = D(0)
    /\ regeneration = [base |-> D(0), modifiers |-> << >>]
    /\ xp_points = 0
    /\ op = NoOp
    /\ inserted = << >>
    /\ twin = NoTwin
    /\ NoStatusBar
    /\ NoSheet

\* stat.add_modifier(m) for a modifier the caller has not added yet.
add_once(m) ==
    /\ phase = "ok"
    /\ m \notin Range(inserted)
    /\ modifiers' = AddModifier(modifiers, m)
    /\ inserted' = Append(inserted, m)
    /\ op' = [NoOp EXCEPT !.name = "add_modifier", !.m = m]
    /\ UNCHANGED <<phase, cls, arg_base, lower_bound, upper_bound, modified_upper_bound,
                   base, pool, growth, current, regeneration, xp_points, twin, barvars, sheetvars>>

NextOrder ==
    \/ \E m \in DOMAIN pool : add_once(m)
    \/ get_value(<< >>)

SpecOrder == InitOrder /\ [][NextOrder]_vars

AllSixAdded == Len(inserted) = Len(SixModifiers)

\* C6 as stated: with the six modifiers added, in whatever order, the value is 10.725.
C6_Claimed ==
    AllSixAdded =>
        /\ Value(<< >>) = Dec(10725, 3)
        /\ op.name = "get_value" => op.ret = Some(Dec(10725, 3))

\* C6: with the six modifiers added, in whatever order, the value is
\* (((10+1)*1.3)+3)*(1+0.2+0.1)*(1-0.5), which is 11.245.
C6_ValueInAnyInsertionOrder ==
    AllSixAdded =>
        /\ Value(<< >>) = Dec(11245, 3)
        /\ Value(<< >>) = DMul(DMul(DAdd(DMul(DAdd(D(10), D(1)), Dec(13, 1)), D(3)),
                                    DAdd(DAdd(D(1), Dec(2, 1)), Dec(1, 1))),
                               DSub(D(1), Dec(5, 1)))
        /\ op.name = "get_value" => op.ret = Some(Dec(11245, 3))

\* The insertion order of the test, read back by get_value.
C6_Witness ==
    /\ inserted = <<6, 4, 5, 2, 3, 1>>
    /\ modifiers = <<1, 2, 3, 4, 5, 6>>
    /\ op.name = "get_value"
    /\ op.ret = Some(Dec(11245, 3))

(***************************************************************************)
(* Modifier.__init__ with an explicit order                                *)
(***************************************************************************)
MaxPool == 2

OrderArgs == { None, Some(-1), Some(5), Some(7) }

ModificationArgs == { "FLAT", "PERCENT_MULTIPLICATIVE" }

InitModifier ==
    /\ phase = "ok"
    /\ cls = "Stat"
    /\ arg_base = D(10)
    /\ lower_bound = None
    /\ upper_bound = None
    /\ modified_upper_bound = None
    /\ base = D(10)
    /\ modifiers = << >>
    /\ pool = << >>
    /\ growth = [lower |-> D(0), upper |-> D(0)]
    /\ current = D(0)
    /\ regeneration = [base |-> D(0), modifiers |-> << >>]
    /\ xp_points = 0
    /\ op = NoOp
    /\ inserted = << >>
    /\ twin = NoTwin
    /\ NoStatusBar
    /\ NoSheet

\* Modifier(b, modification, order, source)
new_modifier(b, modification, order, source) ==
    /\ phase = "ok"
    /\ Len(pool) < MaxPool
    /\ LET made == ModifierInit(b, modification, order, source)
       IN  /\ pool' = IF made.ok THEN Append(pool, made) ELSE pool
           /\ op' = [NoOp EXCEPT !.name = "Modifier",
                                 !.value = order,
                                 !.raised = IF made.ok THEN "No" ELSE "AssertionError"]
    /\ UNCHANGED <<phase, cls, arg_base, lower_bound, upper_bound, modified_upper_bound,
                   base, modifiers, growth, current, regeneration, xp_points,
                   inserted, twin, barvars, sheetvars>>

NextModifier ==
    \/ \E modification \in ModificationArgs, order \in OrderArgs :
          new_modifier(D(1), modification, order, "None")
    \/ \E m \in DOMAIN pool : add_modifier(m)
    \/ \E m \in DOMAIN pool : remove_modifier(m)
    \/ get_value(<< >>)

SpecModifier == InitModifier /\ [][NextModifier]_vars

\* C9 as stated: every modifier that exists, and every modifier a stat holds,
\* has its order in 0..5, an explicit order outside of it being rejected.
C9_Claimed ==
    /\ \A m \in DOMAIN pool : pool[m].order \in ORDER_VALUES
    /\ \A i \in DOMAIN modifiers : pool[modifiers[i]].order \in ORDER_VALUES
    /\ (op.name = "Modifier" /\ ~IsNone(op.value) /\ Val(op.value) \notin ORDER_VALUES)
          => op.raised # "No"

(***************************************************************************)
(* A stat and its twin, which gets the same calls but for one add/remove   *)
(* pair of a tracked modifier                                              *)
(***************************************************************************)
InitTwin == InitStat

\* add_modifier(m) on the stat and on the twin
both_add(m) ==
    /\ phase = "ok"
    /\ Len(modifiers) < MaxMods
    /\ modifiers' = AddModifier(modifiers, m)
    /\ twin' = [twin EXCEPT !.list = AddModifier(@, m)]
    /\ op' = [NoOp EXCEPT !.name = "add_modifier", !.m = m]
    /\ UNCHANGED <<phase, cls, arg_base, lower_bound, upper_bound, modified_upper_bound,
                   base, pool, growth, current, regeneration, xp_points, inserted, barvars, sheetvars>>

\* remove_modifier(m) on the stat and on the twin
both_remove(m) ==
    /\ phase = "ok"
    /\ m \in Range(modifiers)
    /\ m \in Range(twin.list)
    /\ modifiers' = RemoveModifier(modifiers, m)
    /\ twin' = [twin EXCEPT !.list = RemoveModifier(@, m)]
    /\ op' = [NoOp EXCEPT !.name = "remove_modifier", !.m = m]
    /\ UNCHANGED <<phase, cls, arg_base, lower_bound, upper_bound, modified_upper_bound,
                   base, pool, growth, current, regeneration, xp_points, inserted, barvars, sheetvars>>

\* add_modifier(m) on the stat alone: the add of the tracked pair
tracked_add(m) ==
    /\ phase = "ok"
    /\ twin.stage = "none"
    /\ Len(modifiers) < MaxMods
    /\ modifiers' = AddModifier(modifiers, m)
    /\ twin' = [twin EXCEPT !.m = m, !.stage = "added"]
    /\ op' = [NoOp EXCEPT !.name = "add_modifier", !.m = m]
    /\ UNCHANGED <<phase, cls, arg_base, lower_bound, upper_bound, modified_upper_bound,
                   base, pool, growth, current, regeneration, xp_points, inserted, barvars, sheetvars>>

\* remove_modifier(m) on the stat alone: the remove of the tracked pair
tracked_remove ==
    /\ phase = "ok"
    /\ twin.stage = "added"
    /\ modifiers' = RemoveModifier(modifiers, twin.m)
    /\ twin' = [twin EXCEPT !.stage = "removed"]
    /\ op' = [NoOp EXCEPT !.name = "remove_modifier", !.m = twin.m]
    /\ UNCHANGED <<phase, cls, arg_base, lower_bound, upper_bound, modified_upper_bound,
                   base, pool, growth, current, regeneration, xp_points, inserted, barvars, sheetvars>>

NextTwin ==
    \/ \E m \in DOMAIN pool : both_add(m)
    \/ \E m \in DOMAIN pool : both_remove(m)
    \/ \E m \in DOMAIN pool : tracked_add(m)
    \/ tracked_remove

SpecTwin == InitTwin /\ [][NextTwin]_vars

\* get_value() of the twin
TwinValue ==
    GetValue(base, twin.list, << >>, lower_bound, upper_bound, modified_upper_bound)

\* C3 as stated: once the tracked add has been followed by its remove, the
\* stat's value is the value of the twin that never got the pair.
C3_Claimed == twin.stage = "removed" => Value(<< >>) = TwinValue

(***************************************************************************)
(* Status, UniqueStatus and StatusBar of src/src/char/status.py            *)
(***************************************************************************)
SourceMark == {"CURSE", "BLESS", "DISEASE", "MENTAL", "ILLUSIONS", "TIME", "PERMANENT"}

OverrideBehaviour ==
    {"FORCE_OVERRIDE", "OVERRIDE", "PICK_BY_PRIORITY", "PICK_BY_DURATION", "ALWAYS_PASS"}

OverrideBehaviourValue(behaviour) ==
    CASE behaviour = "FORCE_OVERRIDE" -> 1
      [] behaviour = "OVERRIDE" -> 2
      [] behaviour = "PICK_BY_PRIORITY" -> 3
      [] behaviour = "PICK_BY_DURATION" -> 4
      [] behaviour = "ALWAYS_PASS" -> 5

\* OverrideBehaviour(value)
OverrideBehaviourOf(value) ==
    CHOOSE behaviour \in OverrideBehaviour : OverrideBehaviourValue(behaviour) = value

PRIORITY_VALUES == 0 .. 5

\* x in list
Contains(list, x) == \E i \in DOMAIN list : list[i] = x

\* Status.__init__(description, marks, duration).  marks is None or a list
\* object of the caller (an index of ls); the status keeps that very object
\* unless it is empty, and gets a list of its own, [TIME], otherwise.
StatusInit(ls, marks, duration) ==
    LET no_marks == IsNone(marks) \/ ls[Val(marks)] = << >>
        no_duration == IsNone(duration) \/ Val(duration) = 0
        ls1 == IF no_marks THEN Append(ls, <<"TIME">>) ELSE ls
    IN  [ok |-> ~(no_marks /\ no_duration),
         lists |-> IF no_marks /\ no_duration THEN ls ELSE ls1,
         status |-> [kind |-> "Status",
                     marks |-> IF no_marks THEN Len(ls1) ELSE Val(marks),
                     duration |-> duration,
                     expired |-> FALSE,
                     unique_mark |-> "None",
                     override_behaviour |-> "None",
                     priority |-> 0,
                     overridable |-> TRUE]]

\* UniqueStatus.__init__: the unique mark is appended to the caller's list
\* when it is not in it, and the explicit priority is stored as given.
UniqueStatusInit(ls, unique_mark, override_behaviour, marks, duration, priority, overridable) ==
    LET ls1 == IF IsNone(marks) THEN Append(ls, <<unique_mark>>)
               ELSE IF ~Contains(ls[Val(marks)], unique_mark)
               THEN [ls EXCEPT ![Val(marks)] = Append(@, unique_mark)]
               ELSE ls
        made == StatusInit(ls1, IF IsNone(marks) THEN Some(Len(ls1)) ELSE marks, duration)
    IN  [ok |-> made.ok /\ OverrideBehaviourValue(override_behaviour) \in PRIORITY_VALUES,
         lists |-> made.lists,
         status |-> [made.status EXCEPT
                        !.kind = "UniqueStatus",
                        !.unique_mark = unique_mark,
                        !.override_behaviour = override_behaviour,
                        !.priority = IF IsNone(priority)
                                     THEN OverrideBehaviourValue(override_behaviour)
                                     ELSE Val(priority),
                        !.overridable = overridable]]

\* An end_turn that flags the status only once the duration is below zero.
StatusEndTurnLate(status) ==
    IF IsNone(status.duration) THEN status
    ELSE [status EXCEPT !.duration = Some(Val(@) - 1),
                        !.expired = IF Val(status.duration) - 1 < 0 THEN TRUE ELSE @]

\* Status.end_turn
StatusEndTurn(status) ==
    IF IsNone(status.duration) THEN status
    ELSE [status EXCEPT !.duration = Some(Val(@) - 1),
                        !.expired = IF Val(status.duration) - 1 <= 0 THEN TRUE ELSE @]

\* for status in ...: status.end_turn()
RECURSIVE EndTurnEach(_, _)
EndTurnEach(ids, sts) ==
    IF ids = << >> THEN sts
    ELSE EndTurnEach(Tail(ids), [sts EXCEPT ![Head(ids)] = StatusEndTurn(@)])

\* for status in ...: status.remove_mark(mark).  Status.remove_mark takes the
\* first occurrence of the mark out of the list object the status refers to
\* and flags the status; a list without the mark changes nothing.
RECURSIVE RemoveMarkEach(_, _, _, _)
RemoveMarkEach(ids, mark, sts, ls) ==
    IF ids = << >> THEN [statuses |-> sts, lists |-> ls]
    ELSE LET s == Head(ids)
             l == sts[s].marks
         IN IF Contains(ls[l], mark)
            THEN RemoveMarkEach(Tail(ids), mark,
                                [sts EXCEPT ![s].expired = TRUE],
                                [ls EXCEPT ![l] = RemoveFirst(@, mark)])
            ELSE RemoveMarkEach(Tail(ids), mark, sts, ls)

\* dict: the items in insertion order
DictKeys(d) == {d[i].key : i \in DOMAIN d}

DictValues(d) == [i \in DOMAIN d |-> d[i].value]

DictGet(d, k) == d[CHOOSE i \in DOMAIN d : d[i].key = k].value

\* A dict assignment that adds an item even when the key is there.
DictAdd(d, k, v) == Append(d, [key |-> k, value |-> v])

\* d[k] = v
DictSet(d, k, v) ==
    IF k \in DictKeys(d)
    THEN [i \in DOMAIN d |-> IF d[i].key = k THEN [key |-> k, value |-> v] ELSE d[i]]
    ELSE Append(d, [key |-> k, value |-> v])

\* {status.unique_mark: status for status in ids}
RECURSIVE DictByUniqueMark(_, _, _)
DictByUniqueMark(ids, sts, d) ==
    IF ids = << >> THEN d
    ELSE DictByUniqueMark(Tail(ids), sts, DictSet(d, sts[Head(ids)].unique_mark, Head(ids)))

\* A _find_winner that never asks whether old is overridable.
FindWinnerAnyOld(old, new, behaviour) ==
    IF behaviour \in {"FORCE_OVERRIDE", "OVERRIDE"} THEN "new" ELSE "old"

\* StatusBar._find_winner, on the two statuses' attributes: "old" or "new".
RECURSIVE FindWinner(_, _, _)
FindWinner(old, new, behaviour) ==
    IF behaviour = "FORCE_OVERRIDE" THEN "new"
    ELSE IF ~old.overridable THEN "old"
    ELSE IF behaviour = "OVERRIDE" THEN "new"
    ELSE IF behaviour = "ALWAYS_PASS" THEN "old"
    ELSE IF behaviour = "PICK_BY_PRIORITY"
    THEN IF old.priority = new.priority
         THEN FindWinner(old, new, OverrideBehaviourOf(OverrideBehaviourValue(behaviour) + 1))
         ELSE IF new.priority < old.priority THEN "new" ELSE "old"
    ELSE IF old.duration = new.duration
         THEN FindWinner(old, new, OverrideBehaviourOf(OverrideBehaviourValue(behaviour) + 1))
         ELSE IF IsNone(old.duration) THEN "old"
         ELSE IF IsNone(new.duration) THEN "new"
         ELSE IF Val(new.duration) > Val(old.duration) THEN "new" ELSE "old"

\* An _add_unique_status that keeps whoever holds the mark.
AddUniqueStatusKeepingOld(d, sts, s) ==
    IF sts[s].unique_mark \notin DictKeys(d) THEN DictSet(d, sts[s].unique_mark, s) ELSE d

\* An _add_unique_status that asks the behaviour of the status holding the mark.
AddUniqueStatusByOldBehaviour(d, sts, s) ==
    LET mark == sts[s].unique_mark
    IN IF mark \notin DictKeys(d) THEN DictSet(d, mark, s)
       ELSE LET old == DictGet(d, mark)
            IN DictSet(d, mark,
                       IF FindWinner(sts[old], sts[s], sts[old].override_behaviour) = "new"
                       THEN s ELSE old)

\* StatusBar._add_unique_status: the dict after the call.
AddUniqueStatus(d, sts, s) ==
    LET mark == sts[s].unique_mark
    IN IF mark \notin DictKeys(d) THEN DictSet(d, mark, s)
       ELSE LET old == DictGet(d, mark)
            IN DictSet(d, mark,
                       IF FindWinner(sts[old], sts[s], sts[s].override_behaviour) = "new"
                       THEN s ELSE old)

\* StatusBar._refresh: the three collections after the sweep.
Refresh(sts, com, uni, exp) ==
    LET flagged(s) == sts[s].expired
        unflagged(s) == ~sts[s].expired
    IN [common |-> SelectSeq(com, unflagged),
        unique |-> DictByUniqueMark(SelectSeq(DictValues(uni), unflagged), sts, << >>),
        expired |-> exp \o SelectSeq(com, flagged) \o SelectSeq(DictValues(uni), flagged)]

\* The statuses in common or unique.
LiveIn(com, uni) == Range(com) \cup Range(DictValues(uni))

Live == LiveIn(common, unique)

(***************************************************************************)
(* The statuses the callers of the model hold, and the calls they make     *)
(***************************************************************************)
MaxAdds == 2
MaxTurns == 2

\* The list objects the callers pass as marks.
CallerLists ==
    << <<"CURSE">>,
       <<"MENTAL">> >>

\* Constructor calls, in the order they are made.  Two plain statuses are
\* given the same list object.
StatusCalls ==
    << [kind |-> "Status", marks |-> Some(1), duration |-> None],
       [kind |-> "Status", marks |-> Some(1), duration |-> Some(2)],
       [kind |-> "UniqueStatus", unique_mark |-> "CURSE", override_behaviour |-> "ALWAYS_PASS",
        marks |-> None, duration |-> Some(2), priority |-> None, overridable |-> FALSE],
       [kind |-> "UniqueStatus", unique_mark |-> "CURSE", override_behaviour |-> "FORCE_OVERRIDE",
        marks |-> None, duration |-> None, priority |-> None, overridable |-> TRUE],
       [kind |-> "UniqueStatus", unique_mark |-> "DISEASE", override_behaviour |-> "OVERRIDE",
        marks |-> Some(2), duration |-> Some(1), priority |-> None, overridable |-> TRUE] >>

\* The marks the callers remove.
RemovedMarks == {"MENTAL", "CURSE"}

\* Runs the constructor calls one after the other.
RECURSIVE Construct(_, _, _)
Construct(calls, ls, made) ==
    IF calls = << >> THEN [lists |-> ls, statuses |-> made]
    ELSE LET c == Head(calls)
             r == IF c.kind = "Status" THEN StatusInit(ls, c.marks, c.duration)
                  ELSE UniqueStatusInit(ls, c.unique_mark, c.override_behaviour, c.marks,
                                        c.duration, c.priority, c.overridable)
         IN Construct(Tail(calls), r.lists, IF r.ok THEN Append(made, r.status) ELSE made)

Constructed0 == Construct(StatusCalls, CallerLists, << >>)

NoStat ==
    /\ phase = "ok"
    /\ cls = "None"
    /\ arg_base = D(0)
    /\ lower_bound = None
    /\ upper_bound = None
    /\ modified_upper_bound = None
    /\ base = D(0)
    /\ modifiers = << >>
    /\ pool = << >>
    /\ growth = [lower |-> D(0), upper |-> D(0)]
    /\ current = D(0)
    /\ regeneration = [base |-> D(0), modifiers |-> << >>]
    /\ xp_points = 0
    /\ inserted = << >>
    /\ twin = NoTwin
    /\ NoSheet

statvars == <<phase, cls, arg_base, lower_bound, upper_bound, modified_upper_bound,
              base, modifiers, pool, growth, current, regeneration, xp_points,
              inserted, twin, load, bonus, sheet>>

\* StatusBar(), the statuses constructed and none of them added yet.
InitBar ==
    /\ NoStat
    /\ op = NoOp
    /\ statuses = Constructed0.statuses
    /\ mark_lists = Constructed0.lists
    /\ common = << >>
    /\ unique = << >>
    /\ expired = << >>
    /\ log = [added |-> [s \in DOMAIN Constructed0.statuses |-> 0],
              turns |-> [s \in DOMAIN Constructed0.statuses |-> 0],
              dropped |-> [s \in DOMAIN Constructed0.statuses |-> "No"],
              returned |-> [s \in DOMAIN Constructed0.statuses |-> 0],
              cleaned |-> FALSE,
              adds |-> 0,
              limit |-> MaxAdds,
              ended |-> 0]

\* An add_status that ends with _refresh().
add_status_refreshing(s) ==
    /\ log.adds < log.limit
    /\ LET swept == IF statuses[s].kind = "UniqueStatus"
                    THEN Refresh(statuses, common, AddUniqueStatus(unique, statuses, s), expired)
                    ELSE Refresh(statuses, Append(common, s), unique, expired)
       IN /\ common' = swept.common
          /\ unique' = swept.unique
          /\ expired' = swept.expired
    /\ log' = [log EXCEPT
                 !.adds = @ + 1,
                 !.added[s] = @ + 1,
                 !.dropped = [t \in DOMAIN statuses |->
                                 IF /\ statuses[s].kind = "UniqueStatus"
                                    /\ statuses[s].unique_mark \in DictKeys(unique)
                                    /\ DictGet(unique, statuses[s].unique_mark) # s
                                 THEN LET old == DictGet(unique, statuses[s].unique_mark)
                                          won == DictGet(AddUniqueStatus(unique, statuses, s),
                                                         statuses[s].unique_mark)
                                      IN IF t = old /\ won = s THEN "displaced"
                                         ELSE IF t = s /\ won = old THEN "rejected"
                                         ELSE log.dropped[t]
                                 ELSE log.dropped[t]]]
    /\ op' = [NoOp EXCEPT !.name = "add_status", !.m = s]
    /\ UNCHANGED <<statuses, mark_lists>>
    /\ UNCHANGED statvars

\* StatusBar.add_status
add_status(s) ==
    /\ log.adds < log.limit
    /\ IF statuses[s].kind = "UniqueStatus"
       THEN /\ unique' = AddUniqueStatus(unique, statuses, s)
            /\ UNCHANGED common
       ELSE /\ common' = Append(common, s)
            /\ UNCHANGED unique
    /\ log' = [log EXCEPT
                 !.adds = @ + 1,
                 !.added[s] = @ + 1,
                 !.dropped = [t \in DOMAIN statuses |->
                                 IF /\ statuses[s].kind = "UniqueStatus"
                                    /\ statuses[s].unique_mark \in DictKeys(unique)
                                    /\ DictGet(unique, statuses[s].unique_mark) # s
                                 THEN LET old == DictGet(unique, statuses[s].unique_mark)
                                          won == DictGet(unique', statuses[s].unique_mark)
                                      IN IF t = old /\ won = s THEN "displaced"
                                         ELSE IF t = s /\ won = old THEN "rejected"
                                         ELSE log.dropped[t]
                                 ELSE log.dropped[t]]]
    /\ op' = [NoOp EXCEPT !.name = "add_status", !.m = s]
    /\ UNCHANGED <<statuses, mark_lists, expired>>
    /\ UNCHANGED statvars

\* StatusBar.end_turn
bar_end_turn ==
    /\ log.ended < MaxTurns
    /\ statuses' = EndTurnEach(common \o DictValues(unique), statuses)
    /\ LET swept == Refresh(statuses', common, unique, expired)
       IN /\ common' = swept.common
          /\ unique' = swept.unique
          /\ expired' = swept.expired
    /\ log' = [log EXCEPT
                 !.ended = @ + 1,
                 !.turns = [s \in DOMAIN statuses |->
                               IF log.added[s] > 0 THEN log.turns[s] + 1 ELSE log.turns[s]]]
    /\ op' = [NoOp EXCEPT !.name = "end_turn"]
    /\ UNCHANGED mark_lists
    /\ UNCHANGED statvars

\* StatusBar.remove_mark
bar_remove_mark(mark) ==
    /\ LET removed == RemoveMarkEach(common \o DictValues(unique), mark, statuses, mark_lists)
           swept == Refresh(removed.statuses, common, unique, expired)
       IN /\ statuses' = removed.statuses
          /\ mark_lists' = removed.lists
          /\ common' = swept.common
          /\ unique' = swept.unique
          /\ expired' = swept.expired
    /\ op' = [NoOp EXCEPT !.name = "remove_mark", !.source = mark]
    /\ UNCHANGED log
    /\ UNCHANGED statvars

\* StatusBar.pop_expired
pop_expired ==
    /\ expired' = << >>
    /\ op' = [NoOp EXCEPT !.name = "pop_expired", !.ret = Some(expired)]
    /\ log' = [log EXCEPT
                 !.returned = [s \in DOMAIN statuses |->
                                  IF Contains(expired, s) THEN log.returned[s] + 1
                                  ELSE log.returned[s]]]
    /\ UNCHANGED <<statuses, mark_lists, common, unique>>
    /\ UNCHANGED statvars

\* StatusBar.clean_expired
clean_expired ==
    /\ expired' = << >>
    /\ op' = [NoOp EXCEPT !.name = "clean_expired"]
    /\ log' = [log EXCEPT !.cleaned = (@ \/ expired # << >>)]
    /\ UNCHANGED <<statuses, mark_lists, common, unique>>
    /\ UNCHANGED statvars

\* StatusBar.expired, the property
read_expired ==
    /\ op' = [NoOp EXCEPT !.name = "expired", !.ret = Some(expired)]
    /\ UNCHANGED <<statuses, mark_lists, common, unique, expired, log>>
    /\ UNCHANGED statvars

NextBar ==
    \/ \E s \in DOMAIN statuses : add_status(s)
    \/ bar_end_turn
    \/ \E mark \in RemovedMarks : bar_remove_mark(mark)
    \/ pop_expired
    \/ clean_expired
    \/ read_expired

SpecBar == InitBar /\ [][NextBar]_vars

(***************************************************************************)
(* Properties of the StatusBar                                             *)
(***************************************************************************)
\* C16: unique holds at most one status per unique_mark, each a UniqueStatus
\* registered under its own unique_mark.
C16_OneUniquePerMark ==
    /\ \A i \in DOMAIN unique :
          /\ statuses[unique[i].value].kind = "UniqueStatus"
          /\ statuses[unique[i].value].unique_mark = unique[i].key
    /\ \A i, j \in DOMAIN unique :
          i # j => /\ unique[i].key # unique[j].key
                   /\ unique[i].value # unique[j].value
                   /\ statuses[unique[i].value].unique_mark
                         # statuses[unique[j].value].unique_mark

\* The ALWAYS_PASS status came second for CURSE and was turned away.
C16_Witness ==
    /\ op.name = "add_status"
    /\ op.m = 3
    /\ log.dropped[3] = "rejected"
    /\ unique = <<[key |-> "CURSE", value |-> 4]>>

\* C17 as stated: a status flagged expired is in neither common nor unique,
\* after whatever calls.
C17_Claimed == \A s \in Live : ~statuses[s].expired

\* add_status was called once with s.
AddedOnce(s) == log.added[s] = 1

\* No mark was removed from the list s refers to.
MarksKept(s) == mark_lists[statuses[s].marks] = Constructed0.lists[statuses[s].marks]

\* The duration s was constructed with.
GivenDuration(s) == Constructed0.statuses[s].duration

\* What C18 says of a status s with given duration after log.turns[s] calls
\* of end_turn.
Countdown(s) ==
    IF IsNone(GivenDuration(s))
    THEN /\ s \in Live
         /\ statuses[s].duration = None
         /\ ~statuses[s].expired
    ELSE IF log.turns[s] < Val(GivenDuration(s))
    THEN /\ s \in Live
         /\ statuses[s].duration = Some(Val(GivenDuration(s)) - log.turns[s])
         /\ ~statuses[s].expired
    ELSE /\ s \notin Live
         /\ statuses[s].expired

\* C18 as stated: a status attached once (added, and not turned away) whose
\* marks are kept counts down by one per end_turn and expires on the d-th;
\* with duration None it stays live.
C18_Claimed ==
    \A s \in DOMAIN statuses :
        (AddedOnce(s) /\ log.dropped[s] # "rejected" /\ MarksKept(s)) => Countdown(s)

\* C18: the same for a status that, being unique, was not displaced by a
\* later add_status for its unique_mark either.
C18_CountdownUnlessDisplaced ==
    \A s \in DOMAIN statuses :
        (AddedOnce(s) /\ log.dropped[s] = "No" /\ MarksKept(s)) => Countdown(s)

\* The plain status of duration 2, live with duration 1 after the first
\* end_turn, is in expired after the second.
C18_Witness ==
    /\ op.name = "end_turn"
    /\ AddedOnce(2)
    /\ MarksKept(2)
    /\ log.turns[2] = 2
    /\ Contains(expired, 2)
    /\ statuses[2].duration = Some(0)

\* C19 as stated: remove_mark(m) moves every live, unflagged status whose
\* mark list contains m to expired and leaves the others live and unflagged.
C19_Claimed ==
    [][ op'.name = "remove_mark" =>
          \A s \in Live :
              ~statuses[s].expired =>
                 IF Contains(mark_lists[statuses[s].marks], op'.source)
                 THEN /\ Contains(expired', s)
                      /\ s \notin LiveIn(common', unique')
                 ELSE /\ s \in LiveIn(common', unique')
                      /\ ~statuses'[s].expired ]_vars

\* C20: add_status of a FORCE_OVERRIDE UniqueStatus leaves it registered for
\* its unique_mark, whoever held the mark.
C20_ForceOverrideWins ==
    [][ ( /\ op'.name = "add_status"
          /\ statuses[op'.m].kind = "UniqueStatus"
          /\ statuses[op'.m].override_behaviour = "FORCE_OVERRIDE" )
        => /\ statuses[op'.m].unique_mark \in DictKeys(unique')
           /\ DictGet(unique', statuses[op'.m].unique_mark) = op'.m
           /\ op'.m \in LiveIn(common', unique') ]_vars

\* The FORCE_OVERRIDE status took CURSE from the non-overridable one.
C20_Witness ==
    /\ op.name = "add_status"
    /\ op.m = 4
    /\ ~statuses[3].overridable
    /\ log.dropped[3] = "displaced"
    /\ unique = <<[key |-> "CURSE", value |-> 4]>>

(***************************************************************************)
(* Two UniqueStatus objects of one unique_mark, of any attributes          *)
(***************************************************************************)
\* The arguments the two constructor calls are given.
OldDurations == {None, Some(1), Some(2), Some(3)}
NewDurations == {None, Some(1), Some(2)}
OldPriorities == {None, Some(3)}
NewPriorities == {None, Some(3), Some(4)}

\* UniqueStatus("old", CURSE, PICK_BY_DURATION, None, d1, p1, o1) and
\* UniqueStatus("new", CURSE, b2, None, d2, p2), then StatusBar().
InitConflict ==
    /\ NoStat
    /\ op = NoOp
    /\ \E d1 \in OldDurations, p1 \in OldPriorities, o1 \in BOOLEAN,
          b2 \in OverrideBehaviour, d2 \in NewDurations, p2 \in NewPriorities :
          LET made == Construct(
                         << [kind |-> "UniqueStatus", unique_mark |-> "CURSE",
                             override_behaviour |-> "PICK_BY_DURATION", marks |-> None,
                             duration |-> d1, priority |-> p1, overridable |-> o1],
                            [kind |-> "UniqueStatus", unique_mark |-> "CURSE",
                             override_behaviour |-> b2, marks |-> None,
                             duration |-> d2, priority |-> p2, overridable |-> TRUE] >>,
                         << >>, << >>)
          IN /\ statuses = made.statuses
             /\ mark_lists = made.lists
    /\ common = << >>
    /\ unique = << >>
    /\ expired = << >>
    /\ log = [added |-> [s \in 1 .. 2 |-> 0],
              turns |-> [s \in 1 .. 2 |-> 0],
              dropped |-> [s \in 1 .. 2 |-> "No"],
              returned |-> [s \in 1 .. 2 |-> 0],
              cleaned |-> FALSE,
              adds |-> 0,
              limit |-> MaxAdds,
              ended |-> 0]

\* The callers add the two statuses and end turns.
NextConflict ==
    \/ \E s \in DOMAIN statuses : add_status(s)
    \/ bar_end_turn

SpecConflict == InitConflict /\ [][NextConflict]_vars

\* add_status(op'.m) met another status, the old one, under its unique_mark.
Conflict ==
    /\ op'.name = "add_status"
    /\ statuses[op'.m].kind = "UniqueStatus"
    /\ statuses[op'.m].unique_mark \in DictKeys(unique)
    /\ DictGet(unique, statuses[op'.m].unique_mark) # op'.m

\* The status registered for the unique_mark of s.
Holder(uni, s) == DictGet(uni, statuses[s].unique_mark)

\* C21: a non-overridable holder of a unique_mark stays registered and live,
\* and the new status stays out of unique, when the new status's behaviour
\* is anything but FORCE_OVERRIDE, whatever the priorities and durations.
C21_NonOverridableStays ==
    [][ ( /\ Conflict
          /\ ~statuses[Holder(unique, op'.m)].overridable
          /\ statuses[op'.m].override_behaviour # "FORCE_OVERRIDE" )
        => /\ Holder(unique', op'.m) = Holder(unique, op'.m)
           /\ Holder(unique, op'.m) \in LiveIn(common', unique')
           /\ ~Contains(DictValues(unique'), op'.m) ]_vars

\* A PICK_BY_PRIORITY status of the better priority and of endless duration
\* was turned away by a non-overridable holder of duration 1.
C21_Witness ==
    /\ op.name = "add_status"
    /\ op.m = 2
    /\ log.dropped[2] = "rejected"
    /\ ~statuses[1].overridable
    /\ statuses[2].override_behaviour = "PICK_BY_PRIORITY"
    /\ statuses[2].priority < statuses[1].priority
    /\ statuses[2].duration = None
    /\ statuses[1].duration = Some(1)
    /\ unique = <<[key |-> "CURSE", value |-> 1]>>

\* Who is kept by duration: the longer one, None being the longest, and old
\* when the two are equal.
KeptByDuration(old, new) ==
    IF old.duration = new.duration THEN "old"
    ELSE IF IsNone(old.duration) THEN "old"
    ELSE IF IsNone(new.duration) THEN "new"
    ELSE IF Val(new.duration) > Val(old.duration) THEN "new" ELSE "old"

\* Who is kept by the behaviour of new, old being overridable.
KeptByBehaviour(old, new) ==
    CASE new.override_behaviour = "OVERRIDE" -> "new"
      [] new.override_behaviour = "ALWAYS_PASS" -> "old"
      [] new.override_behaviour = "PICK_BY_PRIORITY" ->
            IF new.priority < old.priority THEN "new"
            ELSE IF old.priority < new.priority THEN "old"
            ELSE KeptByDuration(old, new)
      [] new.override_behaviour = "PICK_BY_DURATION" -> KeptByDuration(old, new)

\* C22: against an overridable holder the behaviour of the new status
\* decides: OVERRIDE keeps new, ALWAYS_PASS keeps old, PICK_BY_PRIORITY keeps
\* the lower priority value and on a tie goes by duration, PICK_BY_DURATION
\* keeps the longer duration (None longest), and equal durations keep old.
C22_BehaviourChain ==
    [][ ( /\ Conflict
          /\ statuses[Holder(unique, op'.m)].overridable
          /\ statuses[op'.m].override_behaviour # "FORCE_OVERRIDE" )
        => Holder(unique', op'.m) =
              IF KeptByBehaviour(statuses[Holder(unique, op'.m)], statuses[op'.m]) = "new"
              THEN op'.m ELSE Holder(unique, op'.m) ]_vars

\* Equal priorities sent a PICK_BY_PRIORITY status on to the durations, and
\* they were equal too, the holder having counted down from 3 to 2: the
\* holder was kept.
C22_Witness ==
    /\ op.name = "add_status"
    /\ op.m = 2
    /\ log.dropped[2] = "rejected"
    /\ statuses[1].overridable
    /\ statuses[2].override_behaviour = "PICK_BY_PRIORITY"
    /\ statuses[2].priority = statuses[1].priority
    /\ log.turns[1] = 1
    /\ statuses[1].duration = Some(2)
    /\ statuses[2].duration = Some(2)
    /\ unique = <<[key |-> "CURSE", value |-> 1]>>

(***************************************************************************)
(* A StatusBar whose callers add a status again                            *)
(***************************************************************************)
MaxReadds == 3

\* A plain status and two unique ones of one mark, each with marks of its own.
ReaddCalls ==
    << [kind |-> "Status", marks |-> None, duration |-> Some(1)],
       [kind |-> "UniqueStatus", unique_mark |-> "CURSE", override_behaviour |-> "ALWAYS_PASS",
        marks |-> None, duration |-> Some(1), priority |-> None, overridable |-> TRUE],
       [kind |-> "UniqueStatus", unique_mark |-> "CURSE", override_behaviour |-> "FORCE_OVERRIDE",
        marks |-> None, duration |-> None, priority |-> None, overridable |-> TRUE] >>

Readded0 == Construct(ReaddCalls, << >>, << >>)

InitReadd ==
    /\ NoStat
    /\ op = NoOp
    /\ statuses = Readded0.statuses
    /\ mark_lists = Readded0.lists
    /\ common = << >>
    /\ unique = << >>
    /\ expired = << >>
    /\ log = [added |-> [s \in DOMAIN Readded0.statuses |-> 0],
              turns |-> [s \in DOMAIN Readded0.statuses |-> 0],
              dropped |-> [s \in DOMAIN Readded0.statuses |-> "No"],
              returned |-> [s \in DOMAIN Readded0.statuses |-> 0],
              cleaned |-> FALSE,
              adds |-> 0,
              limit |-> MaxReadds,
              ended |-> 0]

SpecReadd == InitReadd /\ [][NextBar]_vars

\* The status add_status(op'.m) left without the unique_mark.
Loser == IF Holder(unique', op'.m) = op'.m THEN Holder(unique, op'.m) ELSE op'.m

\* What every add_status leaves alone.
AddStatusFrame ==
    /\ expired' = expired
    /\ statuses[op'.m].kind = "UniqueStatus" => common' = common
    /\ statuses[op'.m].kind = "Status" => unique' = unique

C23_Claimed ==
    ~log.cleaned =>
        \A s \in DOMAIN statuses :
            IF statuses[s].expired
            THEN \/ Contains(expired, s) /\ log.returned[s] = 0
                 \/ ~Contains(expired, s) /\ log.returned[s] = 1
            ELSE ~Contains(expired, s) /\ log.returned[s] = 0

(***************************************************************************)
(* CarryingCapacity                                                        *)
(***************************************************************************)
\* CarryingCapacity.__LOAD_LEVELS, in the order of the dict
LOAD_LEVELS ==
    << [step |-> D(1), load_status |-> "RED"],
       [step |-> Dec(8, 1), load_status |-> "YELLOW"],
       [step |-> Dec(6, 1), load_status |-> "GREEN"],
       [step |-> Dec(4, 1), load_status |-> "BLUE"],
       [step |-> D(0), load_status |-> "WHITE"] >>

\* self.load / self.get_value() >= step, the divisor not being zero.  The
\* quotient is compared exactly; Decimal rounds it to 28 digits, which tells
\* the two apart only for operands of more digits than the model has.
PercentAtLeast(l, value, step) ==
    IF DLt(D(0), value) THEN DLe(DMul(step, value), l)
    ELSE DLe(l, DMul(step, value))

\* A load setter that stores the value as given.
SetLoadAsGiven(new_value, lo, up, mup) == new_value

\* CarryingCapacity.load, the setter
SetLoad(new_value, lo, up, mup) == AdjustedValue(new_value, lo, up, mup)

\* CarryingCapacity.load_status: the LoadStatus returned, or the assertion
\* that failed.
LoadStatusOf(l, value) ==
    IF value = D(0) THEN IF DLt(D(0), l) THEN "RED" ELSE "WHITE"
    ELSE IF ~DLe(D(0), l) THEN "AssertionError"
    ELSE LET reached == {i \in DOMAIN LOAD_LEVELS : PercentAtLeast(l, value, LOAD_LEVELS[i].step)}
         IN IF reached = {} THEN "WHITE"
            ELSE LOAD_LEVELS[CHOOSE i \in reached : \A j \in reached : i <= j].load_status

LoadInputs == {D(-5), D(0), D(3), D(4), D(6), D(8), D(10), D(12)}

CapacityBaseInputs == {D(0), D(10)}

\* CarryingCapacity(base)
InitLoad ==
    /\ \E b \in CapacityBaseInputs :
          Constructed([cls |-> "CarryingCapacity", base |-> b, lo |-> Some(D(0)), up |-> None,
                       mup |-> None, growth |-> D(0), growth_max |-> D(0), regen |-> D(0),
                       pool |-> SmallCatalogue])
    /\ phase = "ok"

LoadFrame ==
    UNCHANGED <<phase, cls, arg_base, lower_bound, upper_bound, modified_upper_bound,
                base, modifiers, pool, growth, current, regeneration, xp_points,
                inserted, twin, bonus, sheet, barvars>>

set_load(new_value) ==
    /\ phase = "ok"
    /\ load' = SetLoad(new_value, lower_bound, upper_bound, modified_upper_bound)
    /\ op' = [NoOp EXCEPT !.name = "load", !.value = Some(new_value)]
    /\ LoadFrame

load_status ==
    /\ phase = "ok"
    /\ op' = [NoOp EXCEPT !.name = "load_status",
                          !.ret = Some(LoadStatusOf(load, Value(<< >>)))]
    /\ UNCHANGED load
    /\ LoadFrame

NextLoad ==
    \/ \E m \in DOMAIN pool : add_modifier(m)
    \/ \E m \in DOMAIN pool : remove_modifier(m)
    \/ \E v \in CapacityBaseInputs : set_base(v)
    \/ \E v \in LoadInputs : set_load(v)
    \/ load_status

SpecLoad == InitLoad /\ [][NextLoad]_vars

\* The status the table of C24 gives a load l under a maximum value > 0:
\* by p = l / value, compared as l against the multiples of value.
StatusByPercent(l, value) ==
    IF DLe(value, l) THEN "RED"
    ELSE IF DLe(DMul(Dec(8, 1), value), l) THEN "YELLOW"
    ELSE IF DLe(DMul(Dec(6, 1), value), l) THEN "GREEN"
    ELSE IF DLe(DMul(Dec(4, 1), value), l) THEN "BLUE"
    ELSE "WHITE"

\* C24: load_status never fails; at a maximum of 0 it is RED for a load above
\* 0 and WHITE otherwise, and at any other maximum it is the status of the
\* table for p = load / get_value().
C24_LoadStatusByTable ==
    [][ op'.name = "load_status" =>
          /\ Val(op'.ret) # "AssertionError"
          /\ DLe(D(0), load) /\ DLe(D(0), Value(<< >>))
          /\ Val(op'.ret) = IF Value(<< >>) = D(0)
                            THEN IF DLt(D(0), load) THEN "RED" ELSE "WHITE"
                            ELSE StatusByPercent(load, Value(<< >>)) ]_vars

\* A load of 3 under a maximum of 5 (base 10 halved by a modifier) is
\* exactly 0.6 of it: GREEN.
C24_Witness ==
    /\ op.name = "load_status"
    /\ load = D(3)
    /\ Value(<< >>) = D(5)
    /\ modifiers # << >>
    /\ op.ret = Some("GREEN")

(***************************************************************************)
(* Damage and its DamageBonus                                              *)
(***************************************************************************)
MaxBonusMods == 1

\* The Modifier objects the callers of a Damage hold.
DamageCatalogue ==
    << ModifierInit(Dec(5, 1), "PERCENT_ADDITIVE", None, "necromancer"),
       ModifierInit(Dec(-5, 1), "PERCENT_MULTIPLICATIVE", None, "ring"),
       ModifierInit(Dec(5, 3), "FLAT", None, "None") >>

\* Damage(base, bonus): the arguments of the model
DamageBaseInputs == {D(10), Dec(1005, 3)}
DamageBonusInputs == {None, Some(Dec(2, 2)), Some(Dec(15, 3))}

\* Lists handed to roll as optional_modifiers.
DamageOptionalLists == {<< >>, <<3>>}

\* Damage.__init__
InitDamage ==
    /\ phase = "ok"
    /\ cls = "Damage"
    /\ \E b \in DamageBaseInputs : arg_base = b /\ base = b
    /\ lower_bound = Some(D(0))
    /\ upper_bound = None
    /\ modified_upper_bound = None
    /\ modifiers = << >>
    /\ pool = DamageCatalogue
    /\ growth = [lower |-> D(0), upper |-> D(0)]
    /\ current = D(0)
    /\ regeneration = [base |-> D(0), modifiers |-> << >>]
    /\ xp_points = 0
    /\ op = NoOp
    /\ inserted = << >>
    /\ twin = NoTwin
    /\ NoStatusBar
    /\ load = D(0)
    /\ \E b \in DamageBonusInputs :
          bonus = [base |-> IF IsNone(b) THEN D(0) ELSE Val(b), modifiers |-> << >>]
    /\ sheet = << >>

\* DamageBonus.get_value(optional_modifiers): lower bound 0, no upper bounds
BonusValue(optional_modifiers) ==
    GetValue(bonus.base, bonus.modifiers, optional_modifiers, Some(D(0)), None, None)

DamageFrame ==
    UNCHANGED <<phase, cls, arg_base, lower_bound, upper_bound, modified_upper_bound,
                base, pool, growth, current, regeneration, xp_points,
                inserted, twin, load, sheet, barvars>>

\* Damage.add_modifier(modifier, bonus)
damage_add_modifier(m, to_bonus) ==
    /\ IF to_bonus
       THEN /\ Len(bonus.modifiers) < MaxBonusMods
            /\ bonus' = [bonus EXCEPT !.modifiers = AddModifier(@, m)]
            /\ UNCHANGED modifiers
       ELSE /\ Len(modifiers) < MaxMods
            /\ modifiers' = AddModifier(modifiers, m)
            /\ UNCHANGED bonus
    /\ op' = [NoOp EXCEPT !.name = "add_modifier", !.m = m]
    /\ DamageFrame

\* Damage.remove_modifier(modifier, bonus), the modifier being in the list
damage_remove_modifier(m, from_bonus) ==
    /\ IF from_bonus
       THEN /\ m \in Range(bonus.modifiers)
            /\ bonus' = [bonus EXCEPT !.modifiers = RemoveModifier(@, m)]
            /\ UNCHANGED modifiers
       ELSE /\ m \in Range(modifiers)
            /\ modifiers' = RemoveModifier(modifiers, m)
            /\ UNCHANGED bonus
    /\ op' = [NoOp EXCEPT !.name = "remove_modifier", !.m = m]
    /\ DamageFrame

\* Damage.remove_source: the stat's own list, then the bonus's.
damage_remove_source(source) ==
    /\ modifiers' = RemoveSource(modifiers, source)
    /\ bonus' = [bonus EXCEPT !.modifiers = RemoveSource(@, source)]
    /\ op' = [NoOp EXCEPT !.name = "remove_source", !.source = source]
    /\ DamageFrame

\* Damage.roll(optional_modifiers): any value random.randint can lead to
roll(optional_modifiers) ==
    /\ LET damage_min == Value(optional_modifiers)
           damage_max == DAdd(damage_min, BonusValue(optional_modifiers))
       IN \E r \in RollDecimal(damage_min, damage_max) :
             op' = [NoOp EXCEPT !.name = "roll", !.passed = optional_modifiers,
                                !.ret = Some(r)]
    /\ UNCHANGED <<modifiers, bonus>>
    /\ DamageFrame

NextDamage ==
    \/ \E m \in DOMAIN pool : damage_add_modifier(m, FALSE)
    \/ \E m \in DOMAIN pool : damage_add_modifier(m, TRUE)
    \/ \E m \in DOMAIN pool : damage_remove_modifier(m, FALSE)
    \/ \E m \in DOMAIN pool : damage_remove_modifier(m, TRUE)
    \/ \E s \in Sources : damage_remove_source(s)
    \/ \E l \in DamageOptionalLists : roll(l)

SpecDamage == InitDamage /\ [][NextDamage]_vars

\* C25 as stated: the value roll returns lies between
\* get_value(optional_modifiers) and that plus
\* bonus.get_value(optional_modifiers).
C25_Claimed ==
    [][ op'.name = "roll" =>
          /\ DLe(Value(op'.passed), Val(op'.ret))
          /\ DLe(Val(op'.ret), DAdd(Value(op'.passed), BonusValue(op'.passed))) ]_vars

(***************************************************************************)
(* Resist, Resource and Armour constructed with any growth range           *)
(***************************************************************************)
GrowthArgs == {Dec(-1, 2), D(0), Dec(1, 2)}

\* The arguments of Resist(1, None, growth, growth_max),
\* Resource(1, None, 0, growth, growth_max) and Armour(1, None, 0, growth,
\* growth_max); growth holds the two growth arguments as they were given.
InitGrowthArgs ==
    /\ phase = "args"
    /\ cls \in {"Resist", "Resource", "Armour"}
    /\ arg_base = D(1)
    /\ lower_bound = IF cls = "Armour" THEN None ELSE Some(D(0))
    /\ upper_bound = None
    /\ modified_upper_bound = None
    /\ base = D(0)
    /\ modifiers = << >>
    /\ pool = << >>
    /\ \E g \in GrowthArgs, g_max \in GrowthArgs : growth = [lower |-> g, upper |-> g_max]
    /\ current = D(0)
    /\ regeneration = [base |-> D(0), modifiers |-> << >>]
    /\ xp_points = 0
    /\ op = NoOp
    /\ inserted = << >>
    /\ twin = NoTwin
    /\ NoStatusBar
    /\ NoSheet

\* The growth check of the constructors: Resist.__init__ raises on a negative
\* end of the range, Resource.__init__ (and Armour through it) has no check.
GrowthRejected(c, range) ==
    c = "Resist" /\ (DLt(range.lower, D(0)) \/ DLt(range.upper, D(0)))

\* Resist.__init__ / Resource.__init__ / Armour.__init__
construct_growing ==
    /\ phase = "args"
    /\ LET range == DecimalRange(growth.lower, growth.upper)
           bounded == BoundedStatInit(arg_base, lower_bound, upper_bound, modified_upper_bound)
       IN /\ phase' = IF bounded # "ok" THEN bounded
                       ELSE IF GrowthRejected(cls, range) THEN "ValueError"
                       ELSE "ok"
          /\ growth' = range
    /\ base' = arg_base
    /\ current' = IF cls = "Resist" THEN current ELSE arg_base
    /\ op' = [NoOp EXCEPT !.name = "__init__",
                          !.raised = IF phase' = "ok" THEN "No" ELSE "ValueError"]
    /\ UNCHANGED <<cls, arg_base, lower_bound, upper_bound, modified_upper_bound,
                   modifiers, pool, regeneration, xp_points,
                   inserted, twin, barvars, sheetvars>>

NextGrowth ==
    \/ construct_growing
    \/ grow

SpecGrowth == InitGrowthArgs /\ [][NextGrowth]_vars

\* C26 as stated: no Resist, Resource or Armour exists whose growth range
\* has a negative end, and grow() never returns a negative delta.
C26_Claimed ==
    /\ phase = "ok" => ~DLt(growth.lower, D(0)) /\ ~DLt(growth.upper, D(0))
    /\ op.name = "grow" => ~DLt(Val(op.ret), D(0)) /\ op.raised = "No"

(***************************************************************************)
(* A Stat whose PERCENT_ADDITIVE modifiers have orders of their own        *)
(***************************************************************************)
\* The Modifier objects handed to the stat, with explicit orders.
RunCatalogue ==
    << ModifierInit(Dec(5, 1), "PERCENT_ADDITIVE", Some(2), "necromancer"),
       ModifierInit(Dec(5, 1), "PERCENT_ADDITIVE", Some(3), "ring"),
       ModifierInit(Dec(1, 1), "PERCENT_ADDITIVE", Some(3), "None"),
       ModifierInit(D(1), "FLAT", Some(3), "ring"),
       ModifierInit(Dec(-5, 1), "PERCENT_MULTIPLICATIVE", Some(0), "None"),
       ModifierInit(D(200), "FLAT", None, "necromancer") >>

InitRuns ==
    /\ phase = "ok"
    /\ cls = "Stat"
    /\ arg_base = D(10)
    /\ lower_bound = None
    /\ upper_bound = None
    /\ modified_upper_bound = None
    /\ base = D(10)
    /\ modifiers = << >>
    /\ pool = RunCatalogue
    /\ growth = [lower |-> D(0), upper |-> D(0)]
    /\ current = D(0)
    /\ regeneration = [base |-> D(0), modifiers |-> << >>]
    /\ xp_points = 0
    /\ op = NoOp
    /\ inserted = << >>
    /\ twin = NoTwin
    /\ NoStatusBar
    /\ NoSheet

SpecRuns == InitRuns /\ [][NextStat]_vars

\* The last index of the run that starts at i: the consecutive
\* PERCENT_ADDITIVE modifiers of the order of list[i].
RECURSIVE RunEnd(_, _)
RunEnd(list, i) ==
    IF /\ i + 1 <= Len(list)
       /\ pool[list[i + 1]].modification = "PERCENT_ADDITIVE"
       /\ pool[list[i + 1]].order = pool[list[i]].order
    THEN RunEnd(list, i + 1)
    ELSE i

\* The sum of the values of list[i .. j]
RECURSIVE SumValues(_, _, _)
SumValues(list, i, j) ==
    IF i > j THEN D(0) ELSE DAdd(ModifierValue(list[i]), SumValues(list, i + 1, j))

\* The reference fold of C27 over the order-sorted list, from index i on:
\* each run of PERCENT_ADDITIVE modifiers of equal order is one
\* multiplication by 1 + the sum of the run.
RECURSIVE ReferenceFold(_, _, _)
ReferenceFold(list, i, value) ==
    IF i > Len(list) THEN value
    ELSE LET kind == pool[list[i]].modification
         IN CASE kind = "FLAT" ->
                   ReferenceFold(list, i + 1, DAdd(value, ModifierValue(list[i])))
              [] kind = "PERCENT_MULTIPLICATIVE" ->
                   ReferenceFold(list, i + 1, DMul(value, DAdd(D(1), ModifierValue(list[i]))))
              [] kind = "PERCENT_ADDITIVE" ->
                   ReferenceFold(list, RunEnd(list, i) + 1,
                                 DMul(value, DAdd(D(1), SumValues(list, i, RunEnd(list, i)))))

\* C27 as stated: get_value() is the reference fold of the modifier list,
\* in which only PERCENT_ADDITIVE modifiers of one order are summed.
C27_Claimed ==
    Value(<< >>) = AdjustedValue(ReferenceFold(modifiers, 1, base),
                                 lower_bound, upper_bound, modified_upper_bound)

(***************************************************************************)
(* Resource.current between reads                                          *)
(***************************************************************************)
\* The calls that change get_value() of a Resource or read and assign its
\* current.
NextReclamp ==
    \/ \E m \in DOMAIN pool : add_modifier(m)
    \/ \E m \in DOMAIN pool : remove_modifier(m)
    \/ \E s \in Sources : resource_remove_source(s)
    \/ \E v \in ResourceBaseInputs : set_base(v)
    \/ read_current
    \/ \E v \in CurrentInputs : set_current(v)

SpecReclamp == InitResource /\ [][NextReclamp]_vars

\* The calls that change get_value() of a Resource.
ChangesValue(name) == name \in {"base", "add_modifier", "remove_modifier", "remove_source"}

\* What a read of current would give for a stored current c under a maximum v.
ReadOf(c, v) ==
    DMin(IF IsNone(lower_bound) THEN c ELSE DMax(c, Val(lower_bound)), v)

\* C28: a change of base or modifiers leaves the stored current alone, also
\* when it takes get_value() below it; when such a change brings get_value()
\* back to at least a current it had been taken below (no read came in
\* between, or current would not be above get_value()), the next read gives
\* that original current; a read while get_value() is below current stores
\* get_value(), and a later change that raises get_value() again leaves
\* that reduced current, which is what the next read gives.
C28_ReclampedOnlyOnRead ==
    [][ /\ ChangesValue(op'.name) =>
              /\ current' = current
              /\ (DLt(Value(<< >>), current) \/ op.name = "current") =>
                    LET value_after == GetValue(base', modifiers', << >>, lower_bound,
                                                upper_bound, modified_upper_bound)
                        read_after == ReadOf(current, value_after)
                    IN /\ ( /\ DLt(Value(<< >>), current)
                            /\ DLe(current, value_after)
                            /\ (IsNone(lower_bound) \/ DLe(Val(lower_bound), current)) )
                           => read_after = current
                       /\ (op.name = "current" /\ DLt(current, value_after))
                           => read_after = Val(op.ret)
        /\ (op'.name = "current" /\ DLt(Value(<< >>), current))
               => (current' = Value(<< >>) /\ op'.ret = Some(Value(<< >>))) ]_vars

\* A Resource of base 10 was read as 5 under a -50% modifier; with the
\* modifier gone and the maximum back at 10, the read still gives 5.
C28_Witness ==
    /\ cls = "Resource"
    /\ op.name = "current"
    /\ op.ret = Some(D(5))
    /\ current = D(5)
    /\ base = D(10)
    /\ modifiers = << >>
    /\ Value(<< >>) = D(10)

(***************************************************************************)
(* StatBlock and StatSheet                                                 *)
(***************************************************************************)
MaxSheetMods == 3

\* The Modifier objects the callers of the sheet hold.
SheetCatalogue ==
    << ModifierInit(D(200), "FLAT", None, "necromancer"),
       ModifierInit(Dec(-5, 1), "PERCENT_MULTIPLICATIVE", None, "ring"),
       ModifierInit(Dec(5, 1), "PERCENT_ADDITIVE", None, "necromancer") >>

\* The classes whose add_modifier routes to a stat of their own:
\* Resource._regeneration (Armour is a Resource) and Damage._bonus.
HasSubStat(c) == c \in {"Resource", "Armour", "Damage"}

\* A stat of the sheet: its class, its own modifier list, and the modifier
\* list of its regeneration or bonus, which stays empty without one.
SheetStat(c) == [cls |-> c, modifiers |-> << >>, sub |-> << >>]

\* The blocks handed to StatSheet(*blocks), each a dict of stats; two of
\* them are of one type.
SheetBlocks ==
    << [type |-> "PrimaryStatBlock",
        stats |-> <<[key |-> "STR", value |-> SheetStat("PrimaryStat")]>>],
       [type |-> "ResourceBlock",
        stats |-> <<[key |-> "MP", value |-> SheetStat("Resource")]>>],
       [type |-> "ResourceBlock",
        stats |-> <<[key |-> "HP", value |-> SheetStat("Resource")]>>],
       [type |-> "DamageBlock",
        stats |-> <<[key |-> "PHYSICAL", value |-> SheetStat("Damage")]>>] >>

\* StatSheet.__init__: {type(block): block for block in blocks}
RECURSIVE StatSheetInit(_, _)
StatSheetInit(blocks, d) ==
    IF blocks = << >> THEN d
    ELSE StatSheetInit(Tail(blocks), DictSet(d, Head(blocks).type, Head(blocks)))

\* A remove_source of the stat's own list alone.
StatRemoveSourceOwnList(stat, source) ==
    [stat EXCEPT !.modifiers = RemoveSource(@, source)]

\* stat_.remove_source(source): Stat.remove_source, or the override of
\* Resource and of Damage, which goes on to the regeneration or the bonus.
StatRemoveSource(stat, source) ==
    IF HasSubStat(stat.cls)
    THEN [stat EXCEPT !.modifiers = RemoveSource(@, source),
                      !.sub = RemoveSource(@, source)]
    ELSE [stat EXCEPT !.modifiers = RemoveSource(@, source)]

\* StatBlock.remove_source
BlockRemoveSource(block, source) ==
    [block EXCEPT !.stats = [k \in DOMAIN @ |->
                               [@[k] EXCEPT !.value = StatRemoveSource(@, source)]]]

\* StatSheet.remove_source
SheetRemoveSource(sh, source) ==
    [i \in DOMAIN sh |-> [sh[i] EXCEPT !.value = BlockRemoveSource(@, source)]]

\* The modifier lists of the sheet, own and sub, one after the other.
SheetLists(sh) ==
    [n \in 1 .. 2 * Len(sh) |->
        LET stat == sh[(n + 1) \div 2].value.stats[1].value
        IN IF n % 2 = 1 THEN stat.modifiers ELSE stat.sub]

RECURSIVE TotalLen(_)
TotalLen(lists) == IF lists = << >> THEN 0 ELSE Len(Head(lists)) + TotalLen(Tail(lists))

\* The modifier lists of the regeneration and bonus stats of the sheet.
SubLists(sh) == [i \in DOMAIN sh |-> sh[i].value.stats[1].value.sub]

InitSheet ==
    /\ phase = "ok"
    /\ cls = "None"
    /\ arg_base = D(0)
    /\ lower_bound = None
    /\ upper_bound = None
    /\ modified_upper_bound = None
    /\ base = D(0)
    /\ modifiers = << >>
    /\ pool = SheetCatalogue
    /\ growth = [lower |-> D(0), upper |-> D(0)]
    /\ current = D(0)
    /\ regeneration = [base |-> D(0), modifiers |-> << >>]
    /\ xp_points = 0
    /\ op = NoOp
    /\ inserted = << >>
    /\ twin = NoTwin
    /\ NoStatusBar
    /\ load = D(0)
    /\ bonus = [base |-> D(0), modifiers |-> << >>]
    /\ sheet = StatSheetInit(SheetBlocks, << >>)

SheetFrame ==
    UNCHANGED <<phase, cls, arg_base, lower_bound, upper_bound, modified_upper_bound,
                base, modifiers, pool, growth, current, regeneration, xp_points,
                inserted, twin, load, bonus, barvars>>

\* sheet.get(type)[key].add_modifier(m), or with regeneration=True /
\* bonus=True for a stat that takes the flag
sheet_add_modifier(i, m, to_sub) ==
    /\ TotalLen(SheetLists(sheet)) < MaxSheetMods
    /\ to_sub => HasSubStat(sheet[i].value.stats[1].value.cls)
    /\ sheet' = [sheet EXCEPT ![i].value.stats[1].value =
                    IF to_sub THEN [@ EXCEPT !.sub = AddModifier(@, m)]
                    ELSE [@ EXCEPT !.modifiers = AddModifier(@, m)]]
    /\ op' = [NoOp EXCEPT !.name = "add_modifier", !.m = m]
    /\ SheetFrame

\* sheet.get(type)[key].remove_modifier(m), the modifier being in the list
sheet_remove_modifier(i, m, from_sub) ==
    /\ LET stat == sheet[i].value.stats[1].value
       IN IF from_sub THEN m \in Range(stat.sub) ELSE m \in Range(stat.modifiers)
    /\ sheet' = [sheet EXCEPT ![i].value.stats[1].value =
                    IF from_sub THEN [@ EXCEPT !.sub = RemoveModifier(@, m)]
                    ELSE [@ EXCEPT !.modifiers = RemoveModifier(@, m)]]
    /\ op' = [NoOp EXCEPT !.name = "remove_modifier", !.m = m]
    /\ SheetFrame

\* StatSheet.remove_source(source)
sheet_remove_source(source) ==
    /\ sheet' = SheetRemoveSource(sheet, source)
    /\ op' = [NoOp EXCEPT !.name = "remove_source", !.source = source,
                          !.before = TotalLen(SubLists(sheet))]
    /\ SheetFrame

NextSheet ==
    \/ \E i \in DOMAIN sheet, m \in DOMAIN pool, to_sub \in BOOLEAN :
          sheet_add_modifier(i, m, to_sub)
    \/ \E i \in DOMAIN sheet, m \in DOMAIN pool, from_sub \in BOOLEAN :
          sheet_remove_modifier(i, m, from_sub)
    \/ \E s \in Sources : sheet_remove_source(s)

SpecSheet == InitSheet /\ [][NextSheet]_vars

\* C29: after StatSheet.remove_source(s) every modifier list of the sheet,
\* those of the regeneration and bonus stats included, is the list it was
\* without the modifiers of source s: none of source s is left and the
\* modifiers of other sources stay where they were.
C29_SheetRemoveSource ==
    [][ op'.name = "remove_source" =>
          /\ Len(sheet') = Len(sheet)
          /\ \A n \in DOMAIN SheetLists(sheet) :
                /\ \A k \in DOMAIN SheetLists(sheet')[n] :
                      pool[SheetLists(sheet')[n][k]].source # op'.source
                /\ SheetLists(sheet')[n] = KeepOtherSources(SheetLists(sheet)[n], op'.source) ]_vars

\* remove_source("necromancer") found two modifiers in the regeneration and
\* bonus stats, took the necromancer's out and left the ring's in the bonus
\* of the Damage, and the ring's on the Resource itself.
C29_Witness ==
    /\ op.name = "remove_source"
    /\ op.source = "necromancer"
    /\ op.before = 2
    /\ \E i, j \in DOMAIN sheet :
          /\ sheet[i].value.stats[1].value.cls = "Resource"
          /\ sheet[i].value.stats[1].value.modifiers = <<2>>
          /\ sheet[i].value.stats[1].value.sub = << >>
          /\ sheet[j].value.stats[1].value.cls = "Damage"
          /\ sheet[j].value.stats[1].value.modifiers = << >>
          /\ sheet[j].value.stats[1].value.sub = <<2>>
    /\ TotalLen(SheetLists(sheet)) = 2

====
